---- MODULE Spec2Model ----
(***************************************************************************)
(* Query caching and resilience layer: LRUCache (src/utils/cache.py),      *)
(* CircuitBreaker and retry_with_exponential_backoff (src/utils/retry.py). *)
(***************************************************************************)
EXTENDS Integers, Sequences, FiniteSets, TLC

\* ---------------------------------------------------------------- bounds
MaxCap == 2          \* largest max_size the cache is built with
MaxTtl == 1          \* largest ttl the cache is built with
MaxTime == 1         \* the clock stops ticking here
MaxGets == 1         \* cap on hits + misses

MaxThreshold == 2    \* largest failure_threshold the breaker is built with
MaxRecovery == 2     \* largest recovery_timeout the breaker is built with
MaxBreakerTime == 3  \* the clock of the breaker runs stops ticking here
MaxFailures == 3     \* cap on failure_count
MaxTrials == 2       \* cap on the calls counted while half_open

MaxRetries == 2      \* largest max_retries the wrapper is built with
MaxBaseDelay == 2    \* largest base_delay
MaxMaxDelay == 3     \* largest max_delay
MaxExpBase == 3      \* largest exponential_base

MaxQueries == 3      \* cap on the calls of RAGService.query in one run

MaxOps == 3          \* cap on the cache calls of a run with several callers

MaxAge == 2          \* the clock of the ageing runs stops ticking here
MaxReads == 2        \* cap on hits + misses in the ageing runs

DefaultTtl == 3600   \* CacheConfig.ttl when the settings give none

NoTime == -1         \* last_failure_time = None

Keys == {"a", "b", "c"}
Values == {"v1", "v2"}
None == "None"
Kinds == {"transient", "permanent"}      \* failure kinds of the wrapped func
Callers == {"c1", "c2"}

VARIABLES
    max_size,        \* LRUCache.max_size
    ttl,             \* LRUCache.ttl
    cache,           \* LRUCache._cache: entries, least recently used first
    hits,            \* LRUCache._hits
    misses,          \* LRUCache._misses
    now,             \* the clock read by datetime.utcnow() / time.time()
    cacheOp,         \* the cache call that has just returned, with its result
    useOrder,        \* history: keys by their last successful get or set
    failure_threshold,   \* CircuitBreaker.failure_threshold
    recovery_timeout,    \* CircuitBreaker.recovery_timeout
    expected_exceptions, \* CircuitBreaker.expected_exceptions (guarded kinds)
    failure_count,       \* CircuitBreaker.failure_count
    last_failure_time,   \* CircuitBreaker.last_failure_time
    state,               \* CircuitBreaker.state
    callPc,          \* per caller: "idle", or "invoking" inside func(*args)
    cbSnap,          \* history: the breaker as each caller found it on entry
    cbOp,            \* the breaker event that has just happened
    streak,          \* history: guarded failures since the last success/reset
    trials,          \* history: calls passed to func since half_open was entered
    max_retries,         \* retry_with_exponential_backoff(max_retries)
    base_delay,          \* retry_with_exponential_backoff(base_delay)
    max_delay,           \* retry_with_exponential_backoff(max_delay)
    exponential_base,    \* retry_with_exponential_backoff(exponential_base)
    retry_exceptions,    \* retry_with_exponential_backoff(exceptions)
    on_retry,            \* whether an on_retry callback was given
    attempt,             \* wrapper: the loop variable
    last_exception,      \* wrapper: last_exception
    retryPc,         \* wrapper: "start", "calling", "backoff" or "done"
    retryResult,     \* what the wrapper returned or raised to its caller
    retryLog,        \* history: invocations, callbacks and sleeps, in order
    enabled,             \* QueryCache.config.enabled
    hasCache,            \* QueryCache.cache is an LRUCache (not None)
    qOp,             \* the QueryCache call that has just returned
    calls,           \* the calls this run makes to the QueryCache
    watch,           \* history of one key: its last set and the keys used since
    agent,               \* RAGService.agent is an AgentRunner (not None)
    status,              \* RAGService.agent_state.status
    query,           \* the query of the RAGService.query call in progress
    response,        \* what the last RAGService.query call returned
    svcCalls,        \* history: number of RAGService.query calls so far
    thr,             \* per caller: the frame of its cache call in progress
    tally            \* history: calls started, and how the gets ended

cacheVars == <<max_size, ttl, cache, hits, misses, cacheOp, useOrder>>

breakerVars ==
    <<failure_threshold, recovery_timeout, expected_exceptions, failure_count,
      last_failure_time, state, callPc, cbSnap, cbOp, streak, trials>>

retryVars ==
    <<max_retries, base_delay, max_delay, exponential_base, retry_exceptions,
      on_retry, attempt, last_exception, retryPc, retryResult, retryLog>>

queryVars == <<enabled, hasCache, qOp, calls>>

serviceVars == <<agent, status, query, response, svcCalls>>

raceVars == <<thr, tally>>

vars ==
    <<cacheVars, now, breakerVars, retryVars, queryVars, watch, serviceVars,
      raceVars>>

\* what the calls of each component leave alone
notCacheVars ==
    <<breakerVars, retryVars, queryVars, watch, serviceVars, raceVars>>

notBreakerVars ==
    <<cacheVars, retryVars, queryVars, watch, serviceVars, raceVars>>

notRetryVars ==
    <<cacheVars, breakerVars, queryVars, watch, serviceVars, raceVars>>

notQueryVars ==
    <<breakerVars, retryVars, watch, serviceVars, raceVars>>

notWatchVars ==
    <<breakerVars, retryVars, queryVars, serviceVars, raceVars>>

notServiceVars ==
    <<breakerVars, watch, raceVars>>

notRaceVars == <<breakerVars, retryVars, queryVars, watch, serviceVars>>

\* ------------------------------------------------------------ CacheEntry
NewEntry(k, v, t, tl) ==
    [key |-> k, value |-> v, created_at |-> t, accessed_at |-> t,
     access_count |-> 0, ttl |-> tl]

IsExpired(e, t) == t - e.created_at > e.ttl

\* ----------------------------------------------------------- OrderedDict
HasKey(c, k) == \E i \in DOMAIN c : c[i].key = k

Lookup(c, k) == c[CHOOSE i \in DOMAIN c : c[i].key = k]

DelKey_first(c, k) == Tail(c)

DelKey(c, k) == SelectSeq(c, LAMBDA e : e.key # k)

MoveToEnd_stay(c, k) == c

MoveToEnd(c, k) == Append(DelKey(c, k), Lookup(c, k))

PopFirst_last(c) == SubSeq(c, 1, Len(c) - 1)

PopFirst(c) == Tail(c)

KeyList(c) == [i \in DOMAIN c |-> c[i].key]

KeySet(c) == {c[i].key : i \in DOMAIN c}

\* the record of a call that has returned: its result, the branch a get took
\* and the key a set logged as evicted
CacheCall(o, k, r, b, e) ==
    [op |-> o, key |-> k, result |-> r, branch |-> b, evicted |-> e]

\* history helper: move k to the end of a list of keys
Touch(s, k) == Append(SelectSeq(s, LAMBDA x : x # k), k)

\* -------------------------------------------------------- CircuitBreaker

BreakerRecord(st, fc, lft, t) ==
    [state |-> st, failure_count |-> fc, last_failure_time |-> lft, now |-> t]

\* Exception, the class every failure is an instance of
ExceptionClass == "Exception"

\* isinstance(failure, classes), as 'except classes' tests it
IsInstance(k, classes) == k \in classes \/ ExceptionClass \in classes

\* the default of retry_with_exponential_backoff(exceptions = (Exception,))
DefaultExceptions == {ExceptionClass}

BreakerEvent(e, c, k) ==
    [ev |-> e, caller |-> c, kind |-> k, retry_after |-> NoTime]

\* the number of seconds in "Retry after {self.recovery_timeout}s"
RetryAfter(rt, lft, t) == rt

\* raise Exception("Circuit breaker is OPEN. Retry after ...s")
RejectEvent(c, rt, lft, t) ==
    [BreakerEvent("reject", c, ExceptionClass)
        EXCEPT !.retry_after = RetryAfter(rt, lft, t)]

BreakerFresh ==
    /\ failure_count = 0
    /\ last_failure_time = NoTime
    /\ state = "closed"
    /\ callPc = [c \in Callers |-> "idle"]
    /\ cbSnap = [c \in Callers |-> BreakerRecord("closed", 0, NoTime, 0)]
    /\ cbOp = BreakerEvent("init", None, None)
    /\ streak = 0
    /\ trials = 0

BreakerInit ==
    /\ failure_threshold \in 1..MaxThreshold
    /\ recovery_timeout \in 0..MaxRecovery
    /\ expected_exceptions \in {{"transient"}, Kinds}
    /\ BreakerFresh

ShouldAttemptReset_noSub(lft, t, rt) ==
    IF lft = NoTime THEN TRUE ELSE t >= rt

ShouldAttemptReset_strict(lft, t, rt) ==
    IF lft = NoTime THEN TRUE ELSE t - lft > rt

ShouldAttemptReset_never(lft, t, rt) == lft = NoTime

ShouldAttemptReset(lft, t, rt) ==
    IF lft = NoTime THEN TRUE ELSE t - lft >= rt

OnSuccessState_stay(st) == st

\* _on_success: a half_open breaker closes
OnSuccessState(st) == IF st = "half_open" THEN "closed" ELSE st

OnFailureState_late(st, fc, th) == IF fc > th THEN "open" ELSE st

\* _on_failure: the state once failure_count has been incremented to fc
OnFailureState(st, fc, th) == IF fc >= th THEN "open" ELSE st

\* call, up to the invocation of func: the open-state check, which either
\* raises Exception("Circuit breaker is OPEN...") or lets the call through
CallEnter(c) ==
    /\ callPc[c] = "idle"
    /\ cbSnap' = [cbSnap EXCEPT
                    ![c] = BreakerRecord(state, failure_count, last_failure_time, now)]
    /\ IF state = "open" /\ ~ShouldAttemptReset(last_failure_time, now, recovery_timeout)
       THEN /\ cbOp' = RejectEvent(c, recovery_timeout, last_failure_time, now)
            /\ UNCHANGED <<state, callPc, trials>>
       ELSE /\ state = "half_open" => trials < MaxTrials
            /\ state' = IF state = "open" THEN "half_open" ELSE state
            /\ callPc' = [callPc EXCEPT ![c] = "invoking"]
            /\ cbOp' = BreakerEvent("admit", c, None)
            /\ trials' = IF state = "open" THEN 1
                         ELSE IF state = "half_open" THEN trials + 1
                         ELSE trials
    /\ UNCHANGED <<failure_threshold, recovery_timeout, expected_exceptions,
                   failure_count, last_failure_time, streak, now>>
    /\ UNCHANGED notBreakerVars

\* call: func returns a result, _on_success runs
CallSuccess(c) ==
    /\ callPc[c] = "invoking"
    /\ state' = OnSuccessState(state)
    /\ failure_count' = 0
    /\ streak' = 0
    /\ callPc' = [callPc EXCEPT ![c] = "idle"]
    /\ cbOp' = BreakerEvent("success", c, None)
    /\ UNCHANGED <<failure_threshold, recovery_timeout, expected_exceptions,
                   last_failure_time, cbSnap, trials, now>>
    /\ UNCHANGED notBreakerVars

\* call: func raises a failure of kind k
CallFailure(c, k) ==
    /\ callPc[c] = "invoking"
    /\ callPc' = [callPc EXCEPT ![c] = "idle"]
    /\ IF k \in expected_exceptions
       THEN /\ failure_count < MaxFailures
            /\ failure_count' = failure_count + 1
            /\ last_failure_time' = now
            /\ state' = OnFailureState(state, failure_count + 1, failure_threshold)
            /\ streak' = streak + 1
            /\ cbOp' = BreakerEvent("fail_guarded", c, k)
       ELSE /\ cbOp' = BreakerEvent("fail_unguarded", c, k)
            /\ UNCHANGED <<failure_count, last_failure_time, state, streak>>
    /\ UNCHANGED <<failure_threshold, recovery_timeout, expected_exceptions,
                   cbSnap, trials, now>>
    /\ UNCHANGED notBreakerVars

BreakerReset_keepTime(c) ==
    /\ callPc[c] = "idle"
    /\ state' = "closed"
    /\ failure_count' = 0
    /\ streak' = 0
    /\ cbOp' = BreakerEvent("reset", c, None)
    /\ UNCHANGED <<failure_threshold, recovery_timeout, expected_exceptions,
                   last_failure_time, callPc, cbSnap, trials, now>>
    /\ UNCHANGED notBreakerVars

\* reset: the breaker is closed by hand
BreakerReset(c) ==
    /\ callPc[c] = "idle"
    /\ state' = "closed"
    /\ failure_count' = 0
    /\ last_failure_time' = NoTime
    /\ streak' = 0
    /\ cbOp' = BreakerEvent("reset", c, None)
    /\ UNCHANGED <<failure_threshold, recovery_timeout, expected_exceptions,
                   callPc, cbSnap, trials, now>>
    /\ UNCHANGED notBreakerVars

BreakerTick ==
    /\ now < MaxBreakerTime
    /\ now' = now + 1
    /\ cbOp' = BreakerEvent("tick", None, None)
    /\ UNCHANGED <<failure_threshold, recovery_timeout, expected_exceptions,
                   failure_count, last_failure_time, state, callPc, cbSnap,
                   streak, trials>>
    /\ UNCHANGED notBreakerVars

\* call whose func fails while the breaker is closed and while the clock of
\* the run can still reach the end of the cooldown; func succeeds otherwise
FailingCall(c, k) ==
    /\ state = "closed"
    /\ now + recovery_timeout <= MaxBreakerTime
    /\ CallFailure(c, k)

\* ------------------------------------------ retry_with_exponential_backoff
Min(a, b) == IF a <= b THEN a ELSE b

ExponentialBackoff_oneBased(att, bd, md, eb) == Min(bd * (eb ^ (att + 1)), md)

ExponentialBackoff(att, bd, md, eb) == Min(bd * (eb ^ att), md)

\* a failure raised by the n-th invocation of func
Failure(k, n) == [kind |-> k, raised_at |-> n]

NoFailure == Failure(None, 0)

RetryEvent(e, k, n) == [ev |-> e, kind |-> k, n |-> n]

RetryOutcome(st, f, n) == [status |-> st, failure |-> f, value_of |-> n]

\* number of times func has been invoked
Invocations(log) == Len(SelectSeq(log, LAMBDA x : x.ev = "invoke"))

RetryFresh ==
    /\ attempt = 0
    /\ last_exception = NoFailure
    /\ retryPc = "start"
    /\ retryResult = RetryOutcome("none", NoFailure, 0)
    /\ retryLog = <<>>

RetryInit ==
    /\ max_retries \in 0..MaxRetries
    /\ base_delay \in 0..MaxBaseDelay
    /\ max_delay \in 1..MaxMaxDelay
    /\ exponential_base \in 2..MaxExpBase
    /\ retry_exceptions \in {{"transient"}, Kinds}
    /\ on_retry \in BOOLEAN
    /\ RetryFresh

IsRetryable_any(out, excs) == TRUE

\* except exceptions as e: does the failure match the retryable kinds
IsRetryable(out, excs) == out \in excs

BackoffEvents_noSleep(cb, k, att, delay) ==
    IF cb THEN <<RetryEvent("on_retry", k, att)>> ELSE <<>>

BackoffEvents_sleepFirst(cb, k, att, delay) ==
    <<RetryEvent("sleep", None, delay)>>
        \o (IF cb THEN <<RetryEvent("on_retry", k, att + 1)>> ELSE <<>>)

\* what the wrapper does between two attempts: on_retry(e, attempt) when a
\* callback was given, then time.sleep(delay)
BackoffEvents(cb, k, att, delay) ==
    (IF cb THEN <<RetryEvent("on_retry", k, att)>> ELSE <<>>)
        \o <<RetryEvent("sleep", None, delay)>>

IsLastAttempt_early(att, mr) == att + 1 >= mr

IsLastAttempt(att, mr) == att = mr

\* wrapper is called: last_exception = None, the loop starts at attempt 0
RetryEnter ==
    /\ retryPc = "start"
    /\ last_exception' = NoFailure
    /\ attempt' = 0
    /\ retryPc' = "calling"
    /\ UNCHANGED <<max_retries, base_delay, max_delay, exponential_base,
                   retry_exceptions, on_retry, retryResult, retryLog, now>>
    /\ UNCHANGED notRetryVars

\* one pass of the loop body up to return, raise or the backoff:
\* out is "ok" or the kind of the failure func raises
RetryAttempt(out) ==
    /\ retryPc = "calling"
    /\ LET n == Invocations(retryLog) + 1
           e == Failure(out, n)
       IN  /\ retryLog' = Append(retryLog, RetryEvent("invoke", out, n))
           /\ IF out = "ok"
              THEN /\ retryResult' = RetryOutcome("returned", NoFailure, n)
                   /\ retryPc' = "done"
                   /\ UNCHANGED last_exception
              ELSE IF IsRetryable(out, retry_exceptions)
              THEN /\ last_exception' = e
                   /\ IF IsLastAttempt(attempt, max_retries)
                      THEN /\ retryResult' = RetryOutcome("raised", e, 0)
                           /\ retryPc' = "done"
                      ELSE /\ retryPc' = "backoff"
                           /\ UNCHANGED retryResult
              ELSE /\ retryResult' = RetryOutcome("raised", e, 0)
                   /\ retryPc' = "done"
                   /\ UNCHANGED last_exception
    /\ UNCHANGED <<max_retries, base_delay, max_delay, exponential_base,
                   retry_exceptions, on_retry, attempt, now>>
    /\ UNCHANGED notRetryVars

\* the delay is computed, on_retry is called, the wrapper sleeps and the
\* loop moves to the next attempt
RetryBackoff ==
    /\ retryPc = "backoff"
    /\ LET delay == ExponentialBackoff(attempt, base_delay, max_delay,
                                       exponential_base)
       IN  /\ retryLog' = retryLog \o BackoffEvents(on_retry, last_exception.kind,
                                                   attempt, delay)
           /\ now' = now + delay
    /\ attempt' = attempt + 1
    /\ retryPc' = "calling"
    /\ UNCHANGED <<max_retries, base_delay, max_delay, exponential_base,
                   retry_exceptions, on_retry, last_exception, retryResult>>
    /\ UNCHANGED notRetryVars

\* -------------------------------------------------------------- LRUCache
LRUInit ==
    /\ max_size \in 1..MaxCap
    /\ ttl \in 0..MaxTtl
    /\ cache = <<>>
    /\ hits = 0
    /\ misses = 0
    /\ cacheOp = CacheCall("init", None, None, None, None)
    /\ useOrder = <<>>

\* get: which of the three branches is taken
GetOutcome(c, k, t) ==
    IF ~HasKey(c, k) THEN "absent"
    ELSE IF IsExpired(Lookup(c, k), t) THEN "expired"
    ELSE "hit"

StoreAfterGet_keep(c, k, t) ==
    IF GetOutcome(c, k, t) # "hit" THEN c
    ELSE LET moved == MoveToEnd(c, k)
         IN  [moved EXCEPT ![Len(moved)].accessed_at = t,
                           ![Len(moved)].access_count = @ + 1]

StoreAfterGet_renew(c, k, t) ==
    IF GetOutcome(c, k, t) = "absent" THEN c
    ELSE IF GetOutcome(c, k, t) = "expired" THEN DelKey(c, k)
    ELSE LET moved == MoveToEnd(c, k)
         IN  [moved EXCEPT ![Len(moved)].accessed_at = t,
                           ![Len(moved)].created_at = t,
                           ![Len(moved)].access_count = @ + 1]

\* get: the store it leaves
StoreAfterGet(c, k, t) ==
    IF GetOutcome(c, k, t) = "absent" THEN c
    ELSE IF GetOutcome(c, k, t) = "expired" THEN DelKey(c, k)
    ELSE LET moved == MoveToEnd(c, k)
         IN  [moved EXCEPT ![Len(moved)].accessed_at = t,
                           ![Len(moved)].access_count = @ + 1]

\* get: the value it returns
GetResult(c, k, t) ==
    IF GetOutcome(c, k, t) = "hit" THEN Lookup(c, k).value ELSE None

HitsAfterGet_onFound(h, c, k, t) == IF HasKey(c, k) THEN h + 1 ELSE h

HitsAfterGet(h, c, k, t) == IF GetOutcome(c, k, t) = "hit" THEN h + 1 ELSE h

MissesAfterGet(m, c, k, t) == IF GetOutcome(c, k, t) = "hit" THEN m ELSE m + 1

LRUGet(k) ==
    /\ hits + misses < MaxGets
    /\ cache' = StoreAfterGet(cache, k, now)
    /\ hits' = HitsAfterGet(hits, cache, k, now)
    /\ misses' = MissesAfterGet(misses, cache, k, now)
    /\ cacheOp' = CacheCall("get", k, GetResult(cache, k, now),
                          GetOutcome(cache, k, now), None)
    /\ useOrder' = IF GetOutcome(cache, k, now) = "hit"
                   THEN Touch(useOrder, k) ELSE useOrder
    /\ UNCHANGED <<max_size, ttl, now>>
    /\ UNCHANGED notCacheVars

\* set: the store after the old entry is dropped and the new one appended
Inserted_inplace(c, k, v, t, tl) ==
    IF HasKey(c, k)
    THEN [i \in DOMAIN c |->
            IF c[i].key = k THEN NewEntry(k, v, t, tl) ELSE c[i]]
    ELSE Append(c, NewEntry(k, v, t, tl))

\* set: the entry is built, the old one dropped, the new one put at the end
Inserted(c, k, v, t, tl) ==
    Append(IF HasKey(c, k) THEN DelKey(c, k) ELSE c, NewEntry(k, v, t, tl))

EvictIfOver_late(c, ms) == IF Len(c) > ms + 1 THEN PopFirst(c) ELSE c

\* set: the eviction that follows the insertion
EvictIfOver(c, ms) == IF Len(c) > ms THEN PopFirst(c) ELSE c

EvictedKey(c, ms) == IF Len(c) > ms THEN Head(c).key ELSE None

StoreAfterSet_evictBefore(c, k, v, t, tl, ms) ==
    Inserted(IF Len(c) >= ms THEN PopFirst(c) ELSE c, k, v, t, tl)

StoreAfterSet(c, k, v, t, tl, ms) == EvictIfOver(Inserted(c, k, v, t, tl), ms)

LRUSet(k, v) ==
    /\ cache' = StoreAfterSet(cache, k, v, now, ttl, max_size)
    /\ cacheOp' = CacheCall("set", k, None, None,
                          EvictedKey(Inserted(cache, k, v, now, ttl), max_size))
    /\ useOrder' = Touch(useOrder, k)
    /\ UNCHANGED <<max_size, ttl, hits, misses, now>>
    /\ UNCHANGED notCacheVars

LRUDelete(k) ==
    /\ cache' = IF HasKey(cache, k) THEN DelKey(cache, k) ELSE cache
    /\ cacheOp' = CacheCall("delete", k,
                          IF HasKey(cache, k) THEN "True" ELSE "False", None, None)
    /\ UNCHANGED <<max_size, ttl, hits, misses, now, useOrder>>
    /\ UNCHANGED notCacheVars

LRUClear ==
    /\ cache' = <<>>
    /\ hits' = 0
    /\ misses' = 0
    /\ cacheOp' = CacheCall("clear", None, None, None, None)
    /\ UNCHANGED <<max_size, ttl, now, useOrder>>
    /\ UNCHANGED notCacheVars

\* time passes between two cache calls
CacheTick ==
    /\ now < MaxTime
    /\ now' = now + 1
    /\ cacheOp' = CacheCall("tick", None, None, None, None)
    /\ UNCHANGED <<max_size, ttl, cache, hits, misses, useOrder>>
    /\ UNCHANGED notCacheVars

\* ------------------------------------------------------------ QueryCache
\* get_stats of the LRUCache; hit_rate is the fraction num / den
HitRate(h, m) ==
    IF h + m > 0 THEN [num |-> h, den |-> h + m] ELSE [num |-> 0, den |-> 1]

LRUStats_hitsOverMisses(c, ms, h, m) ==
    [size |-> Len(c), max_size |-> ms, hits |-> h, misses |-> m,
     hit_rate |-> IF h + m > 0 THEN [num |-> h, den |-> m]
                  ELSE [num |-> 0, den |-> 1],
     total_requests |-> h + m]

LRUStats(c, ms, h, m) ==
    [size |-> Len(c), max_size |-> ms, hits |-> h, misses |-> m,
     hit_rate |-> HitRate(h, m), total_requests |-> h + m]

LRUGetStats ==
    /\ cacheOp' = CacheCall("get_stats", None,
                            LRUStats(cache, max_size, hits, misses),
                            None, None)
    /\ UNCHANGED <<max_size, ttl, cache, hits, misses, now, useOrder>>
    /\ UNCHANGED notCacheVars

\* the calls runs make: a query and its keyword arguments, <<name, value>>
\* pairs with distinct names in the order they are passed; one run makes two
\* of them
QueryCalls ==
    {[query |-> "q1", kwargs |-> <<>>],
     [query |-> "q1", kwargs |-> <<<<"a", 1>>>>],
     [query |-> "q1", kwargs |-> <<<<"a", 1>>, <<"b", 2>>>>],
     [query |-> "q1", kwargs |-> <<<<"b", 2>>, <<"a", 1>>>>],
     [query |-> "q1", kwargs |-> <<<<"a", 2>>, <<"b", 2>>>>],
     [query |-> "q2", kwargs |-> <<<<"a", 1>>, <<"b", 2>>>>]}

\* the order in which sort_keys = True puts the names
NameOrder == <<"a", "b", "query">>

JsonString(x) == <<"str", x>>

JsonNumber(x) == <<"num", x>>

\* key_data = {"query": query, **kwargs}
KeyData(q, kw) ==
    [n \in {"query"} \cup {kw[i][1] : i \in DOMAIN kw} |->
        IF n = "query" THEN JsonString(q)
        ELSE JsonNumber(kw[CHOOSE i \in DOMAIN kw : kw[i][1] = n][2])]

JsonDumps_unsorted(q, kw) ==
    <<<<"query", JsonString(q)>>>>
        \o [i \in DOMAIN kw |-> <<kw[i][1], JsonNumber(kw[i][2])>>]

\* json.dumps(key_data, sort_keys = True): the items in the order of their
\* names
JsonDumps(q, kw) ==
    LET data == KeyData(q, kw)
        names == SelectSeq(NameOrder, LAMBDA n : n \in DOMAIN data)
    IN  [i \in DOMAIN names |-> <<names[i], data[names[i]]>>]

\* hashlib.sha256(...).hexdigest(), taken as free of collisions
Sha256(text) == <<"sha256", text>>

GenerateKey(q, kw) == Sha256(JsonDumps(q, kw))

QueryCall(o, q, kw, r, st) ==
    [op |-> o, query |-> q, kwargs |-> kw, result |-> r, stats |-> st]

NoStats == [none |-> TRUE]

DisabledStats == [enabled |-> FALSE]

PassThrough_never(en, has) == FALSE

\* not self.config.enabled or self.cache is None
PassThrough(en, has) == ~en \/ ~has

\* bool(self.cache): None is false, and so is an LRUCache whose __len__ is 0
CacheTruthy(has, c) == has /\ Len(c) > 0

QueryCacheInit ==
    /\ enabled \in BOOLEAN
    /\ hasCache = enabled
    /\ max_size \in (IF enabled THEN 1..MaxCap ELSE {1})
    /\ ttl \in (IF enabled THEN 0..MaxTtl ELSE {0})
    /\ cache = <<>>
    /\ hits = 0
    /\ misses = 0
    /\ cacheOp = CacheCall("init", None, None, None, None)
    /\ useOrder = <<>>
    /\ qOp = QueryCall("init", None, <<>>, None, NoStats)
    /\ calls \in {{c1, c2} : c1 \in QueryCalls, c2 \in QueryCalls}

\* the recency history is kept for runs of the bare LRUCache only
QueryGet(c) ==
    /\ c \in calls
    /\ hits + misses < MaxGets
    /\ IF PassThrough(enabled, hasCache)
       THEN /\ qOp' = QueryCall("get", c.query, c.kwargs, None, NoStats)
            /\ UNCHANGED <<cache, hits, misses, cacheOp>>
       ELSE LET key == GenerateKey(c.query, c.kwargs)
            IN  /\ cache' = StoreAfterGet(cache, key, now)
                /\ hits' = HitsAfterGet(hits, cache, key, now)
                /\ misses' = MissesAfterGet(misses, cache, key, now)
                /\ cacheOp' = CacheCall("get", key, GetResult(cache, key, now),
                                        GetOutcome(cache, key, now), None)
                /\ qOp' = QueryCall("get", c.query, c.kwargs,
                                    GetResult(cache, key, now), NoStats)
    /\ UNCHANGED <<max_size, ttl, now, useOrder, enabled, hasCache, calls>>
    /\ UNCHANGED notQueryVars

QuerySet(c, r) ==
    /\ c \in calls
    /\ IF PassThrough(enabled, hasCache)
       THEN UNCHANGED <<cache, cacheOp>>
       ELSE LET key == GenerateKey(c.query, c.kwargs)
            IN  /\ cache' = StoreAfterSet(cache, key, r, now, ttl, max_size)
                /\ cacheOp' = CacheCall("set", key, None, None,
                                 EvictedKey(Inserted(cache, key, r, now, ttl),
                                            max_size))
    /\ qOp' = QueryCall("set", c.query, c.kwargs, r, NoStats)
    /\ UNCHANGED <<max_size, ttl, hits, misses, now, useOrder,
                   enabled, hasCache, calls>>
    /\ UNCHANGED notQueryVars

QueryClear ==
    /\ IF CacheTruthy(hasCache, cache)
       THEN /\ cache' = <<>>
            /\ hits' = 0
            /\ misses' = 0
            /\ cacheOp' = CacheCall("clear", None, None, None, None)
       ELSE UNCHANGED <<cache, hits, misses, cacheOp>>
    /\ qOp' = QueryCall("clear", None, <<>>, None, NoStats)
    /\ UNCHANGED <<max_size, ttl, now, useOrder, enabled, hasCache, calls>>
    /\ UNCHANGED notQueryVars

QueryGetStats ==
    /\ IF CacheTruthy(hasCache, cache)
       THEN /\ qOp' = QueryCall("get_stats", None, <<>>, None,
                                LRUStats(cache, max_size, hits, misses))
            /\ cacheOp' = CacheCall("get_stats", None,
                                    LRUStats(cache, max_size, hits, misses),
                                    None, None)
       ELSE /\ qOp' = QueryCall("get_stats", None, <<>>, None, DisabledStats)
            /\ UNCHANGED cacheOp
    /\ UNCHANGED <<max_size, ttl, cache, hits, misses, now, useOrder,
                   enabled, hasCache, calls>>
    /\ UNCHANGED notQueryVars

\* time passes between two QueryCache calls
QueryTick ==
    /\ now < MaxTime
    /\ now' = now + 1
    /\ qOp' = QueryCall("tick", None, <<>>, None, NoStats)
    /\ UNCHANGED <<cacheVars, enabled, hasCache, calls>>
    /\ UNCHANGED notQueryVars

\* ------------------------------------------- LRUCache, one key followed
\* the key whose set and later get are followed
WatchedKey == "a"

\* ever: the key was set at some time; live: it was set and neither deleted
\* nor cleared since; value, at: what and when the last set stored; setSince:
\* the other keys set since; usedSince: the other keys set or read with a hit
\* since
WatchFresh ==
    [ever |-> FALSE, live |-> FALSE, value |-> None, at |-> 0,
     setSince |-> {}, usedSince |-> {}]

WatchDropped(w) == [WatchFresh EXCEPT !.ever = w.ever]

\* the calls are those of the LRUCache; the recency history is not kept here
WatchedGet(k) ==
    /\ hits + misses < MaxGets
    /\ cache' = StoreAfterGet(cache, k, now)
    /\ hits' = HitsAfterGet(hits, cache, k, now)
    /\ misses' = MissesAfterGet(misses, cache, k, now)
    /\ cacheOp' = CacheCall("get", k, GetResult(cache, k, now),
                          GetOutcome(cache, k, now), None)
    /\ watch' = IF k # WatchedKey /\ watch.live
                   /\ GetOutcome(cache, k, now) = "hit"
                THEN [watch EXCEPT !.usedSince = @ \cup {k}]
                ELSE watch
    /\ UNCHANGED <<max_size, ttl, now, useOrder>>
    /\ UNCHANGED notWatchVars

WatchedSet(k, v) ==
    /\ cache' = StoreAfterSet(cache, k, v, now, ttl, max_size)
    /\ cacheOp' = CacheCall("set", k, None, None,
                          EvictedKey(Inserted(cache, k, v, now, ttl), max_size))
    /\ watch' = IF k = WatchedKey
                THEN [ever |-> TRUE, live |-> TRUE, value |-> v, at |-> now,
                      setSince |-> {}, usedSince |-> {}]
                ELSE IF watch.live
                THEN [watch EXCEPT !.setSince = @ \cup {k},
                                   !.usedSince = @ \cup {k}]
                ELSE watch
    /\ UNCHANGED <<max_size, ttl, hits, misses, now, useOrder>>
    /\ UNCHANGED notWatchVars

WatchedDelete(k) ==
    /\ cache' = IF HasKey(cache, k) THEN DelKey(cache, k) ELSE cache
    /\ cacheOp' = CacheCall("delete", k,
                          IF HasKey(cache, k) THEN "True" ELSE "False", None, None)
    /\ watch' = IF k = WatchedKey THEN WatchDropped(watch) ELSE watch
    /\ UNCHANGED <<max_size, ttl, hits, misses, now, useOrder>>
    /\ UNCHANGED notWatchVars

WatchedClear ==
    /\ cache' = <<>>
    /\ hits' = 0
    /\ misses' = 0
    /\ cacheOp' = CacheCall("clear", None, None, None, None)
    /\ watch' = WatchDropped(watch)
    /\ UNCHANGED <<max_size, ttl, now, useOrder>>
    /\ UNCHANGED notWatchVars

WatchedTick ==
    /\ now < MaxTime
    /\ now' = now + 1
    /\ cacheOp' = CacheCall("tick", None, None, None, None)
    /\ UNCHANGED <<max_size, ttl, cache, hits, misses, useOrder, watch>>
    /\ UNCHANGED notWatchVars

\* ------------------------------ LRUCache, entries that outlive their ttl
\* the same calls over a clock that runs past the ttl, with repeated reads;
\* of the followed key only the last set is kept (ever, live, value, at)
AgingGet(k) ==
    /\ hits + misses < MaxReads
    /\ cache' = StoreAfterGet(cache, k, now)
    /\ hits' = HitsAfterGet(hits, cache, k, now)
    /\ misses' = MissesAfterGet(misses, cache, k, now)
    /\ cacheOp' = CacheCall("get", k, GetResult(cache, k, now),
                          GetOutcome(cache, k, now), None)
    /\ UNCHANGED <<max_size, ttl, now, useOrder, watch>>
    /\ UNCHANGED notWatchVars

AgingSet(k, v) ==
    /\ cache' = StoreAfterSet(cache, k, v, now, ttl, max_size)
    /\ cacheOp' = CacheCall("set", k, None, None,
                          EvictedKey(Inserted(cache, k, v, now, ttl), max_size))
    /\ watch' = IF k = WatchedKey
                THEN [WatchFresh EXCEPT !.ever = TRUE, !.live = TRUE,
                                        !.value = v, !.at = now]
                ELSE watch
    /\ UNCHANGED <<max_size, ttl, hits, misses, now, useOrder>>
    /\ UNCHANGED notWatchVars

AgingDelete(k) ==
    /\ cache' = IF HasKey(cache, k) THEN DelKey(cache, k) ELSE cache
    /\ cacheOp' = CacheCall("delete", k,
                          IF HasKey(cache, k) THEN "True" ELSE "False", None, None)
    /\ watch' = IF k = WatchedKey THEN WatchDropped(watch) ELSE watch
    /\ UNCHANGED <<max_size, ttl, hits, misses, now, useOrder>>
    /\ UNCHANGED notWatchVars

AgingClear ==
    /\ cache' = <<>>
    /\ hits' = 0
    /\ misses' = 0
    /\ cacheOp' = CacheCall("clear", None, None, None, None)
    /\ watch' = WatchDropped(watch)
    /\ UNCHANGED <<max_size, ttl, now, useOrder>>
    /\ UNCHANGED notWatchVars

AgingTick_sweep ==
    /\ now < MaxAge
    /\ now' = now + 1
    /\ cache' = SelectSeq(cache, LAMBDA e : ~IsExpired(e, now + 1))
    /\ cacheOp' = CacheCall("tick", None, None, None, None)
    /\ UNCHANGED <<max_size, ttl, hits, misses, useOrder, watch>>
    /\ UNCHANGED notWatchVars

\* time passes between two cache calls: no thread, timer or sweeper runs
AgingTick ==
    /\ now < MaxAge
    /\ now' = now + 1
    /\ cacheOp' = CacheCall("tick", None, None, None, None)
    /\ UNCHANGED <<max_size, ttl, cache, hits, misses, useOrder, watch>>
    /\ UNCHANGED notWatchVars

\* ------------------------------------- LRUCache, statement by statement
\* the frame of a caller that is in no cache call
NoEntry == NewEntry(None, None, 0, 0)

IdleFrame ==
    [pc |-> "idle", key |-> None, value |-> None, entry |-> NoEntry, tmp |-> 0]

Frame(p, k, v, e, x) ==
    [pc |-> p, key |-> k, value |-> v, entry |-> e, tmp |-> x]

RaceFresh ==
    /\ thr = [c \in Callers |-> IdleFrame]
    /\ tally = [started |-> 0, found |-> 0, absent |-> 0, raised |-> 0,
                cleared |-> 0]

\* a statement of caller c that is not the last of its call
Goes(c, f) ==
    /\ thr' = [thr EXCEPT ![c] = f]
    /\ cacheOp' = CacheCall("step", None, None, None, None)
    /\ UNCHANGED tally

\* a call begins
Begins(c, f) ==
    /\ thr[c].pc = "idle"
    /\ tally.started < MaxOps
    /\ thr' = [thr EXCEPT ![c] = f]
    /\ cacheOp' = CacheCall("step", None, None, None, None)
    /\ tally' = [tally EXCEPT !.started = @ + 1]

\* the call of caller c returns r
Returns(c, o, r, b) ==
    /\ thr' = [thr EXCEPT ![c] = IdleFrame]
    /\ cacheOp' = CacheCall(o, thr[c].key, r, b, None)
    /\ tally' = IF o = "get" /\ r = None
                THEN [tally EXCEPT !.absent = @ + 1]
                ELSE IF o = "get"
                THEN [tally EXCEPT !.found = @ + 1]
                ELSE IF o = "clear"
                THEN [tally EXCEPT !.cleared = @ + 1]
                ELSE tally

\* the call of caller c ends with KeyError
Raises(c, o) ==
    /\ thr' = [thr EXCEPT ![c] = IdleFrame]
    /\ cacheOp' = CacheCall(o, thr[c].key, "KeyError", "raised", None)
    /\ tally' = [tally EXCEPT !.raised = @ + 1]

\* the entry object a caller holds is the one stored under its key
SameEntry(e, c, k) ==
    /\ HasKey(c, k)
    /\ Lookup(c, k).value = e.value
    /\ Lookup(c, k).created_at = e.created_at

\* get, l.52: if key not in self._cache
GetCheck(c, k) ==
    /\ Begins(c, Frame(IF HasKey(cache, k) THEN "get_entry" ELSE "miss_read",
                       k, None, NoEntry, 0))
    /\ UNCHANGED <<cache, hits, misses>>
    /\ UNCHANGED <<max_size, ttl, now, useOrder>>
    /\ UNCHANGED notRaceVars

\* get, l.56-59: entry = self._cache[key]; if entry.is_expired()
GetEntry(c) ==
    /\ thr[c].pc = "get_entry"
    /\ IF HasKey(cache, thr[c].key)
       THEN LET e == Lookup(cache, thr[c].key)
            IN  Goes(c, [thr[c] EXCEPT
                          !.pc = IF IsExpired(e, now) THEN "get_del"
                                 ELSE "get_move",
                          !.entry = e])
       ELSE Raises(c, "get")
    /\ UNCHANGED <<cache, hits, misses>>
    /\ UNCHANGED <<max_size, ttl, now, useOrder>>
    /\ UNCHANGED notRaceVars

\* get, l.60: del self._cache[key]
GetDel(c) ==
    /\ thr[c].pc = "get_del"
    /\ IF HasKey(cache, thr[c].key)
       THEN /\ cache' = DelKey(cache, thr[c].key)
            /\ Goes(c, [thr[c] EXCEPT !.pc = "miss_read"])
       ELSE /\ Raises(c, "get")
            /\ UNCHANGED cache
    /\ UNCHANGED <<hits, misses>>
    /\ UNCHANGED <<max_size, ttl, now, useOrder>>
    /\ UNCHANGED notRaceVars

\* get, l.66-70: self._cache.move_to_end(key), then the access info of the
\* entry object is updated
GetMove(c) ==
    /\ thr[c].pc = "get_move"
    /\ IF HasKey(cache, thr[c].key)
       THEN LET moved == MoveToEnd(cache, thr[c].key)
            IN  /\ cache' = IF SameEntry(thr[c].entry, cache, thr[c].key)
                            THEN [moved EXCEPT
                                    ![Len(moved)].accessed_at = now,
                                    ![Len(moved)].access_count = @ + 1]
                            ELSE moved
                /\ Goes(c, [thr[c] EXCEPT !.pc = "hit_read"])
       ELSE /\ Raises(c, "get")
            /\ UNCHANGED cache
    /\ UNCHANGED <<hits, misses>>
    /\ UNCHANGED <<max_size, ttl, now, useOrder>>
    /\ UNCHANGED notRaceVars

\* self._misses += 1, the read
MissRead(c) ==
    /\ thr[c].pc = "miss_read"
    /\ Goes(c, [thr[c] EXCEPT !.pc = "miss_write", !.tmp = misses])
    /\ UNCHANGED <<cache, hits, misses>>
    /\ UNCHANGED <<max_size, ttl, now, useOrder>>
    /\ UNCHANGED notRaceVars

\* self._misses += 1, the write; return None
MissWrite(c) ==
    /\ thr[c].pc = "miss_write"
    /\ misses' = thr[c].tmp + 1
    /\ Returns(c, "get", None, "absent")
    /\ UNCHANGED <<cache, hits>>
    /\ UNCHANGED <<max_size, ttl, now, useOrder>>
    /\ UNCHANGED notRaceVars

\* self._hits += 1, the read
HitRead(c) ==
    /\ thr[c].pc = "hit_read"
    /\ Goes(c, [thr[c] EXCEPT !.pc = "hit_write", !.tmp = hits])
    /\ UNCHANGED <<cache, hits, misses>>
    /\ UNCHANGED <<max_size, ttl, now, useOrder>>
    /\ UNCHANGED notRaceVars

\* self._hits += 1, the write; return entry.value
HitWrite(c) ==
    /\ thr[c].pc = "hit_write"
    /\ hits' = thr[c].tmp + 1
    /\ Returns(c, "get", thr[c].entry.value, "hit")
    /\ UNCHANGED <<cache, misses>>
    /\ UNCHANGED <<max_size, ttl, now, useOrder>>
    /\ UNCHANGED notRaceVars

\* set, l.83-90: the entry is built; if key in self._cache
SetCheck(c, k, v) ==
    /\ Begins(c, Frame(IF HasKey(cache, k) THEN "set_del" ELSE "set_insert",
                       k, v, NewEntry(k, v, now, ttl), 0))
    /\ UNCHANGED <<cache, hits, misses>>
    /\ UNCHANGED <<max_size, ttl, now, useOrder>>
    /\ UNCHANGED notRaceVars

\* set, l.91: del self._cache[key]
SetDel(c) ==
    /\ thr[c].pc = "set_del"
    /\ IF HasKey(cache, thr[c].key)
       THEN /\ cache' = DelKey(cache, thr[c].key)
            /\ Goes(c, [thr[c] EXCEPT !.pc = "set_insert"])
       ELSE /\ Raises(c, "set")
            /\ UNCHANGED cache
    /\ UNCHANGED <<hits, misses>>
    /\ UNCHANGED <<max_size, ttl, now, useOrder>>
    /\ UNCHANGED notRaceVars

\* set, l.94: self._cache[key] = entry; a key that is there keeps its place
SetInsert(c) ==
    /\ thr[c].pc = "set_insert"
    /\ cache' = IF HasKey(cache, thr[c].key)
                THEN [i \in DOMAIN cache |->
                        IF cache[i].key = thr[c].key THEN thr[c].entry
                        ELSE cache[i]]
                ELSE Append(cache, thr[c].entry)
    /\ Goes(c, [thr[c] EXCEPT !.pc = "set_len"])
    /\ UNCHANGED <<hits, misses>>
    /\ UNCHANGED <<max_size, ttl, now, useOrder>>
    /\ UNCHANGED notRaceVars

\* set, l.97: if len(self._cache) > self.max_size; else the call returns
SetLen(c) ==
    /\ thr[c].pc = "set_len"
    /\ IF Len(cache) > max_size
       THEN Goes(c, [thr[c] EXCEPT !.pc = "set_pop"])
       ELSE Returns(c, "set", None, None)
    /\ UNCHANGED <<cache, hits, misses>>
    /\ UNCHANGED <<max_size, ttl, now, useOrder>>
    /\ UNCHANGED notRaceVars

\* set, l.98: self._cache.popitem(last=False); the call returns
SetPop(c) ==
    /\ thr[c].pc = "set_pop"
    /\ IF Len(cache) > 0
       THEN /\ cache' = PopFirst(cache)
            /\ Returns(c, "set", None, None)
       ELSE /\ Raises(c, "set")
            /\ UNCHANGED cache
    /\ UNCHANGED <<hits, misses>>
    /\ UNCHANGED <<max_size, ttl, now, useOrder>>
    /\ UNCHANGED notRaceVars

\* delete, l.112: if key in self._cache; return False
DeleteCheck(c, k) ==
    /\ thr[c].pc = "idle"
    /\ tally.started < MaxOps
    /\ tally' = [tally EXCEPT !.started = @ + 1]
    /\ IF HasKey(cache, k)
       THEN /\ thr' = [thr EXCEPT ![c] = Frame("delete_del", k, None,
                                               NoEntry, 0)]
            /\ cacheOp' = CacheCall("step", None, None, None, None)
       ELSE /\ cacheOp' = CacheCall("delete", k, "False", None, None)
            /\ UNCHANGED thr
    /\ UNCHANGED <<cache, hits, misses>>
    /\ UNCHANGED <<max_size, ttl, now, useOrder>>
    /\ UNCHANGED notRaceVars

\* delete, l.113-114: del self._cache[key]; return True
DeleteDel(c) ==
    /\ thr[c].pc = "delete_del"
    /\ IF HasKey(cache, thr[c].key)
       THEN /\ cache' = DelKey(cache, thr[c].key)
            /\ Returns(c, "delete", "True", None)
       ELSE /\ Raises(c, "delete")
            /\ UNCHANGED cache
    /\ UNCHANGED <<hits, misses>>
    /\ UNCHANGED <<max_size, ttl, now, useOrder>>
    /\ UNCHANGED notRaceVars

\* clear, l.119: self._cache.clear()
ClearStore(c) ==
    /\ Begins(c, Frame("clear_hits", None, None, NoEntry, 0))
    /\ cache' = <<>>
    /\ UNCHANGED <<hits, misses>>
    /\ UNCHANGED <<max_size, ttl, now, useOrder>>
    /\ UNCHANGED notRaceVars

\* clear, l.120: self._hits = 0
ClearHits(c) ==
    /\ thr[c].pc = "clear_hits"
    /\ hits' = 0
    /\ Goes(c, [thr[c] EXCEPT !.pc = "clear_misses"])
    /\ UNCHANGED <<cache, misses>>
    /\ UNCHANGED <<max_size, ttl, now, useOrder>>
    /\ UNCHANGED notRaceVars

\* clear, l.121: self._misses = 0; the call returns
ClearMisses(c) ==
    /\ thr[c].pc = "clear_misses"
    /\ misses' = 0
    /\ Returns(c, "clear", None, None)
    /\ UNCHANGED <<cache, hits>>
    /\ UNCHANGED <<max_size, ttl, now, useOrder>>
    /\ UNCHANGED notRaceVars

\* time passes while the callers run
RaceTick ==
    /\ now < MaxTime
    /\ now' = now + 1
    /\ cacheOp' = CacheCall("tick", None, None, None, None)
    /\ UNCHANGED <<max_size, ttl, cache, hits, misses, useOrder>>
    /\ UNCHANGED raceVars
    /\ UNCHANGED notRaceVars

\* --------------------------------- CircuitBreaker, statement by statement
\* call: func raises a failure of kind k; a guarded one enters _on_failure,
\* whose self.failure_count += 1 starts by reading the counter
FailureRead(c, k) ==
    /\ callPc[c] = "invoking"
    /\ IF k \in expected_exceptions
       THEN /\ streak < MaxFailures
            /\ callPc' = [callPc EXCEPT ![c] = "fail_write"]
            /\ thr' = [thr EXCEPT ![c] = Frame("idle", None, k, NoEntry,
                                               failure_count)]
            /\ cbOp' = BreakerEvent("step", c, k)
       ELSE /\ callPc' = [callPc EXCEPT ![c] = "idle"]
            /\ cbOp' = BreakerEvent("fail_unguarded", c, k)
            /\ UNCHANGED thr
    /\ UNCHANGED <<failure_threshold, recovery_timeout, expected_exceptions,
                   failure_count, last_failure_time, state, cbSnap, streak,
                   trials, now, tally>>
    /\ UNCHANGED <<cacheVars, retryVars, queryVars, watch, serviceVars>>

\* _on_failure: self.failure_count += 1, the write
FailureWrite(c) ==
    /\ callPc[c] = "fail_write"
    /\ thr[c].tmp < MaxFailures
    /\ failure_count' = thr[c].tmp + 1
    /\ callPc' = [callPc EXCEPT ![c] = "fail_stamp"]
    /\ cbOp' = BreakerEvent("step", c, thr[c].value)
    /\ UNCHANGED <<failure_threshold, recovery_timeout, expected_exceptions,
                   last_failure_time, state, cbSnap, streak, trials, now,
                   raceVars>>
    /\ UNCHANGED <<cacheVars, retryVars, queryVars, watch, serviceVars>>

\* _on_failure: self.last_failure_time = time.time()
FailureStamp(c) ==
    /\ callPc[c] = "fail_stamp"
    /\ last_failure_time' = now
    /\ callPc' = [callPc EXCEPT ![c] = "fail_trip"]
    /\ cbOp' = BreakerEvent("step", c, thr[c].value)
    /\ UNCHANGED <<failure_threshold, recovery_timeout, expected_exceptions,
                   failure_count, state, cbSnap, streak, trials, now,
                   raceVars>>
    /\ UNCHANGED <<cacheVars, retryVars, queryVars, watch, serviceVars>>

\* _on_failure: if self.failure_count >= self.failure_threshold the state
\* becomes "open"; the failure is raised again to the caller
FailureTrip(c) ==
    /\ callPc[c] = "fail_trip"
    /\ state' = OnFailureState(state, failure_count, failure_threshold)
    /\ streak' = streak + 1
    /\ callPc' = [callPc EXCEPT ![c] = "idle"]
    /\ thr' = [thr EXCEPT ![c] = IdleFrame]
    /\ cbOp' = BreakerEvent("fail_guarded", c, thr[c].value)
    /\ UNCHANGED <<failure_threshold, recovery_timeout, expected_exceptions,
                   failure_count, last_failure_time, cbSnap, trials, now,
                   tally>>
    /\ UNCHANGED <<cacheVars, retryVars, queryVars, watch, serviceVars>>

\* ------------------------------------------------------------ RAGService
\* the queries the callers of a run ask
Queries == {"q1", "q2"}

\* no query call has been made yet
ServiceFresh ==
    /\ agent = FALSE
    /\ status = "initializing"
    /\ query = None
    /\ response = None
    /\ svcCalls = 0

\* @retry_with_exponential_backoff(max_retries=3) on RAGService.query: the
\* other parameters keep their defaults
QueryRetryPolicy ==
    /\ max_retries = 3
    /\ base_delay = 1
    /\ max_delay = 60
    /\ exponential_base = 2
    /\ retry_exceptions = DefaultExceptions
    /\ on_retry = FALSE
    /\ RetryFresh

\* RAGService.__init__: the query cache is built from the settings, there is
\* no agent yet
ServiceInit ==
    /\ enabled \in BOOLEAN
    /\ hasCache = enabled
    /\ max_size \in (IF enabled THEN 1..MaxCap ELSE {1})
    /\ ttl \in (IF enabled THEN 0..MaxTtl \cup {DefaultTtl} ELSE {0})
    /\ cache = <<>>
    /\ hits = 0
    /\ misses = 0
    /\ cacheOp = CacheCall("init", None, None, None, None)
    /\ useOrder = <<>>
    /\ qOp = QueryCall("init", None, <<>>, None, NoStats)
    /\ calls = {}
    /\ QueryRetryPolicy
    /\ ServiceFresh

\* no call of the service is in progress
ServiceIdle == retryPc \in {"start", "done"}

\* if cached_result: a QueryResponse is true, None is false
Truthy(r) == r # None

\* what the wrapper of the retry policy does with a failure of the body:
\* retry after the backoff, or raise it to the caller
WrapperCatches(kind) ==
    LET e == Failure(kind, Invocations(retryLog) + 1)
    IN  IF IsInstance(kind, retry_exceptions)
        THEN /\ last_exception' = e
             /\ IF IsLastAttempt(attempt, max_retries)
                THEN /\ retryResult' = RetryOutcome("raised", e, 0)
                     /\ retryPc' = "done"
                ELSE /\ retryPc' = "backoff"
                     /\ UNCHANGED retryResult
        ELSE /\ retryResult' = RetryOutcome("raised", e, 0)
             /\ retryPc' = "done"
             /\ UNCHANGED last_exception

\* the wrapper returns the value of the body to the caller
WrapperReturns ==
    /\ retryResult' = RetryOutcome("returned", NoFailure,
                                   Invocations(retryLog) + 1)
    /\ retryPc' = "done"
    /\ UNCHANGED last_exception

\* a caller calls service.query(QueryRequest(query = q)): the wrapper starts
\* its loop at attempt 0
ServiceQuery(q) ==
    /\ ServiceIdle
    /\ svcCalls < MaxQueries
    /\ svcCalls' = svcCalls + 1
    /\ query' = q
    /\ response' = None
    /\ last_exception' = NoFailure
    /\ attempt' = 0
    /\ retryPc' = "calling"
    /\ retryResult' = RetryOutcome("none", NoFailure, 0)
    /\ retryLog' = <<>>
    /\ UNCHANGED <<max_retries, base_delay, max_delay, exponential_base,
                   retry_exceptions, on_retry, now, agent, status>>
    /\ UNCHANGED <<cacheVars, queryVars>>
    /\ UNCHANGED notServiceVars

\* the body of query up to the agent call: the agent check, then the cache
\* lookup, whose hit is returned at once
QueryBody ==
    /\ retryPc = "calling"
    /\ LET n == Invocations(retryLog) + 1
           key == GenerateKey(query, <<>>)
           off == PassThrough(enabled, hasCache)
           branch == IF off THEN "off" ELSE GetOutcome(cache, key, now)
           cached_result == IF off THEN None ELSE GetResult(cache, key, now)
           lookup == RetryEvent("lookup", branch, n)
       IN  IF ~agent
           THEN /\ WrapperCatches("AgentNotInitializedError")
                /\ retryLog' = Append(retryLog,
                      RetryEvent("invoke", "AgentNotInitializedError", n))
                /\ UNCHANGED <<cache, hits, misses, status, response>>
           ELSE /\ IF off
                   THEN UNCHANGED <<cache, hits, misses>>
                   ELSE /\ cache' = StoreAfterGet(cache, key, now)
                        /\ hits' = HitsAfterGet(hits, cache, key, now)
                        /\ misses' = MissesAfterGet(misses, cache, key, now)
                /\ IF Truthy(cached_result)
                   THEN /\ WrapperReturns
                        /\ response' = cached_result
                        /\ retryLog' = retryLog
                               \o <<lookup, RetryEvent("invoke", "ok", n)>>
                        /\ UNCHANGED status
                   ELSE /\ status' = "processing"
                        /\ retryPc' = "agent"
                        /\ retryLog' = Append(retryLog, lookup)
                        /\ UNCHANGED <<last_exception, retryResult, response>>
    /\ UNCHANGED <<max_retries, base_delay, max_delay, exponential_base,
                   retry_exceptions, on_retry, attempt, now>>
    /\ UNCHANGED <<max_size, ttl, cacheOp, useOrder, queryVars>>
    /\ UNCHANGED <<agent, query, svcCalls>>
    /\ UNCHANGED notServiceVars

\* AgentReturns that does not store the response
AgentReturns_noStore(r) ==
    /\ retryPc = "agent"
    /\ LET n == Invocations(retryLog) + 1
       IN  /\ status' = "ready"
           /\ response' = r
           /\ WrapperReturns
           /\ retryLog' = retryLog \o <<RetryEvent("agent", "ok", n),
                                         RetryEvent("store", r, n),
                                         RetryEvent("invoke", "ok", n)>>
    /\ UNCHANGED <<max_retries, base_delay, max_delay, exponential_base,
                   retry_exceptions, on_retry, attempt, now>>
    /\ UNCHANGED <<cacheVars, queryVars>>
    /\ UNCHANGED <<agent, query, svcCalls>>
    /\ UNCHANGED notServiceVars

\* self.agent.query(query) returns r: the response is built, stored in the
\* cache and returned
AgentReturns(r) ==
    /\ retryPc = "agent"
    /\ LET n == Invocations(retryLog) + 1
           key == GenerateKey(query, <<>>)
       IN  /\ status' = "ready"
           /\ IF PassThrough(enabled, hasCache)
              THEN UNCHANGED cache
              ELSE cache' = StoreAfterSet(cache, key, r, now, ttl, max_size)
           /\ response' = r
           /\ WrapperReturns
           /\ retryLog' = retryLog \o <<RetryEvent("agent", "ok", n),
                                         RetryEvent("store", r, n),
                                         RetryEvent("invoke", "ok", n)>>
    /\ UNCHANGED <<max_retries, base_delay, max_delay, exponential_base,
                   retry_exceptions, on_retry, attempt, now>>
    /\ UNCHANGED <<max_size, ttl, hits, misses, cacheOp, useOrder, queryVars>>
    /\ UNCHANGED <<agent, query, svcCalls>>
    /\ UNCHANGED notServiceVars

\* self.agent.query(query) raises: the status becomes "error" and QueryError
\* is raised to the wrapper
AgentRaises ==
    /\ retryPc = "agent"
    /\ LET n == Invocations(retryLog) + 1
       IN  /\ status' = "error"
           /\ WrapperCatches("QueryError")
           /\ retryLog' = retryLog \o <<RetryEvent("agent", "fail", n),
                                         RetryEvent("invoke", "QueryError", n)>>
    /\ UNCHANGED <<max_retries, base_delay, max_delay, exponential_base,
                   retry_exceptions, on_retry, attempt, now>>
    /\ UNCHANGED <<cacheVars, queryVars>>
    /\ UNCHANGED <<agent, query, response, svcCalls>>
    /\ UNCHANGED notServiceVars

\* create_agent succeeds between two queries
CreateAgent ==
    /\ ServiceIdle
    /\ ~agent
    /\ agent' = TRUE
    /\ status' = "ready"
    /\ UNCHANGED <<query, response, svcCalls>>
    /\ UNCHANGED <<cacheVars, now, retryVars, queryVars>>
    /\ UNCHANGED notServiceVars

\* reset(): the agent is dropped, the state is rebuilt and clear_cache()
\* clears the query cache
ServiceReset ==
    /\ ServiceIdle
    /\ agent' = FALSE
    /\ status' = "initializing"
    /\ IF CacheTruthy(hasCache, cache)
       THEN /\ cache' = <<>>
            /\ hits' = 0
            /\ misses' = 0
       ELSE UNCHANGED <<cache, hits, misses>>
    /\ UNCHANGED <<query, response, svcCalls>>
    /\ UNCHANGED <<max_size, ttl, cacheOp, useOrder, now, retryVars, queryVars>>
    /\ UNCHANGED notServiceVars

\* time passes while the service is in use
ServiceTick ==
    /\ now < MaxTime
    /\ now' = now + 1
    /\ UNCHANGED <<cacheVars, retryVars, queryVars, serviceVars>>
    /\ UNCHANGED notServiceVars

\* ------------------------------------------------------------- cached
\* a function decorated with cached(cache_instance) and no cache_kwargs;
\* the calls pass the query as the first argument
CachedInit ==
    /\ enabled \in BOOLEAN
    /\ hasCache = enabled
    /\ max_size \in (IF enabled THEN 1..MaxCap ELSE {1})
    /\ ttl \in (IF enabled THEN 0..MaxTtl ELSE {0})
    /\ cache = <<>>
    /\ hits = 0
    /\ misses = 0
    /\ cacheOp = CacheCall("init", None, None, None, None)
    /\ useOrder = <<>>
    /\ qOp = QueryCall("init", None, <<>>, None, NoStats)
    /\ calls = {}

\* what func may return
FuncResults == Values \cup {None}

\* wrapper(q): cache_instance.get, then either the cached result is returned
\* ("cached_hit") or func runs, returns r and r is stored ("cached_run")
CachedCall(q, r) ==
    /\ hits + misses < MaxReads
    /\ IF PassThrough(enabled, hasCache)
       THEN /\ qOp' = QueryCall("cached_run", q, <<>>, r, NoStats)
            /\ UNCHANGED <<cache, hits, misses, cacheOp>>
       ELSE LET key == GenerateKey(q, <<>>)
                cached_result == GetResult(cache, key, now)
                afterGet == StoreAfterGet(cache, key, now)
            IN  /\ hits' = HitsAfterGet(hits, cache, key, now)
                /\ misses' = MissesAfterGet(misses, cache, key, now)
                /\ IF cached_result # None
                   THEN /\ cache' = afterGet
                        /\ cacheOp' = CacheCall("get", key, cached_result,
                                                GetOutcome(cache, key, now), None)
                        /\ qOp' = QueryCall("cached_hit", q, <<>>,
                                            cached_result, NoStats)
                   ELSE /\ cache' = StoreAfterSet(afterGet, key, r, now, ttl,
                                                  max_size)
                        /\ cacheOp' = CacheCall("set", key, None, None,
                                 EvictedKey(Inserted(afterGet, key, r, now, ttl),
                                            max_size))
                        /\ qOp' = QueryCall("cached_run", q, <<>>, r, NoStats)
    /\ UNCHANGED <<max_size, ttl, now, useOrder, enabled, hasCache, calls>>
    /\ UNCHANGED notQueryVars

\* ------------------------------- retry wrapper around a circuit breaker
\* retry_with_exponential_backoff(...)(with_circuit_breaker(cb)(func)): the
\* wrapper is built without a callback, the breaker is new
GuardedInit ==
    /\ BreakerInit
    /\ max_retries \in 0..MaxRetries
    /\ base_delay \in 0..MaxBaseDelay
    /\ max_delay \in 1..MaxMaxDelay
    /\ exponential_base \in 2..MaxExpBase
    /\ retry_exceptions \in {{"transient"}, Kinds, DefaultExceptions}
    /\ on_retry = FALSE
    /\ RetryFresh

\* one attempt of the wrapper, up to func: circuit_breaker.call either raises
\* Exception("Circuit breaker is OPEN...") to the wrapper or goes on to func
GuardedAttempt(c) ==
    /\ retryPc = "calling"
    /\ callPc[c] = "idle"
    /\ cbSnap' = [cbSnap EXCEPT
                    ![c] = BreakerRecord(state, failure_count, last_failure_time, now)]
    /\ IF state = "open" /\ ~ShouldAttemptReset(last_failure_time, now, recovery_timeout)
       THEN /\ cbOp' = RejectEvent(c, recovery_timeout, last_failure_time, now)
            /\ WrapperCatches(ExceptionClass)
            /\ retryLog' = Append(retryLog,
                   RetryEvent("invoke", ExceptionClass, Invocations(retryLog) + 1))
            /\ UNCHANGED <<state, callPc, trials>>
       ELSE /\ state = "half_open" => trials < MaxTrials
            /\ state' = IF state = "open" THEN "half_open" ELSE state
            /\ callPc' = [callPc EXCEPT ![c] = "invoking"]
            /\ cbOp' = BreakerEvent("admit", c, None)
            /\ trials' = IF state = "open" THEN 1
                         ELSE IF state = "half_open" THEN trials + 1
                         ELSE trials
            /\ retryPc' = "operation"
            /\ UNCHANGED <<last_exception, retryResult, retryLog>>
    /\ UNCHANGED <<failure_threshold, recovery_timeout, expected_exceptions,
                   failure_count, last_failure_time, streak, now>>
    /\ UNCHANGED <<max_retries, base_delay, max_delay, exponential_base,
                   retry_exceptions, on_retry, attempt>>
    /\ UNCHANGED <<cacheVars, queryVars, watch, serviceVars, raceVars>>

\* func returns: _on_success runs and the wrapper returns the result
GuardedSuccess(c) ==
    /\ retryPc = "operation"
    /\ callPc[c] = "invoking"
    /\ state' = OnSuccessState(state)
    /\ failure_count' = 0
    /\ streak' = 0
    /\ callPc' = [callPc EXCEPT ![c] = "idle"]
    /\ cbOp' = BreakerEvent("success", c, None)
    /\ WrapperReturns
    /\ retryLog' = retryLog \o
          <<RetryEvent("operation", "ok", Invocations(retryLog) + 1),
            RetryEvent("invoke", "ok", Invocations(retryLog) + 1)>>
    /\ UNCHANGED <<failure_threshold, recovery_timeout, expected_exceptions,
                   last_failure_time, cbSnap, trials, now>>
    /\ UNCHANGED <<max_retries, base_delay, max_delay, exponential_base,
                   retry_exceptions, on_retry, attempt>>
    /\ UNCHANGED <<cacheVars, queryVars, watch, serviceVars, raceVars>>

\* func raises a failure of kind k: _on_failure runs if the breaker guards
\* it, and the failure goes on to the wrapper
GuardedFailure(c, k) ==
    /\ retryPc = "operation"
    /\ callPc[c] = "invoking"
    /\ callPc' = [callPc EXCEPT ![c] = "idle"]
    /\ IF k \in expected_exceptions
       THEN /\ failure_count < MaxFailures
            /\ failure_count' = failure_count + 1
            /\ last_failure_time' = now
            /\ state' = OnFailureState(state, failure_count + 1, failure_threshold)
            /\ streak' = streak + 1
            /\ cbOp' = BreakerEvent("fail_guarded", c, k)
       ELSE /\ cbOp' = BreakerEvent("fail_unguarded", c, k)
            /\ UNCHANGED <<failure_count, last_failure_time, state, streak>>
    /\ WrapperCatches(k)
    /\ retryLog' = retryLog \o
          <<RetryEvent("operation", k, Invocations(retryLog) + 1),
            RetryEvent("invoke", k, Invocations(retryLog) + 1)>>
    /\ UNCHANGED <<failure_threshold, recovery_timeout, expected_exceptions,
                   cbSnap, trials, now>>
    /\ UNCHANGED <<max_retries, base_delay, max_delay, exponential_base,
                   retry_exceptions, on_retry, attempt>>
    /\ UNCHANGED <<cacheVars, queryVars, watch, serviceVars, raceVars>>

\* -------------------------------------------------------- specifications
\* the service of a run that makes no service call
ServiceUnused == ServiceFresh

\* the frames of a run whose cache calls do not overlap
RaceUnused == RaceFresh

\* the history of a run in which no key is followed
WatchUnused == watch = WatchFresh

\* the QueryCache of a run that makes no QueryCache call
QueryUnused ==
    /\ enabled = TRUE
    /\ hasCache = TRUE
    /\ qOp = QueryCall("init", None, <<>>, None, NoStats)
    /\ calls = {}

CacheUnused ==
    /\ max_size = 1
    /\ ttl = 0
    /\ cache = <<>>
    /\ hits = 0
    /\ misses = 0
    /\ cacheOp = CacheCall("init", None, None, None, None)
    /\ useOrder = <<>>

\* the breaker of a run that makes no breaker call
BreakerUnused ==
    /\ failure_threshold = 1
    /\ recovery_timeout = 0
    /\ expected_exceptions = Kinds
    /\ BreakerFresh

\* the wrapper of a run that makes no wrapped call
RetryUnused ==
    /\ max_retries = 0
    /\ base_delay = 0
    /\ max_delay = 0
    /\ exponential_base = 2
    /\ retry_exceptions = Kinds
    /\ on_retry = FALSE
    /\ RetryFresh

CacheInit ==
    /\ LRUInit
    /\ now = 0
    /\ BreakerUnused
    /\ RetryUnused
    /\ QueryUnused
    /\ WatchUnused
    /\ ServiceUnused
    /\ RaceUnused

CacheNext ==
    \/ \E k \in Keys : LRUGet(k)
    \/ \E k \in Keys, v \in Values : LRUSet(k, v)
    \/ \E k \in Keys : LRUDelete(k)
    \/ LRUClear
    \/ LRUGetStats
    \/ CacheTick

CacheSpec == CacheInit /\ [][CacheNext]_vars

BreakerSpecInit ==
    /\ BreakerInit
    /\ now = 0
    /\ CacheUnused
    /\ RetryUnused
    /\ QueryUnused
    /\ WatchUnused
    /\ ServiceUnused
    /\ RaceUnused

\* one caller: every call returns before the next one starts
BreakerNext ==
    \/ CallEnter("c1")
    \/ CallSuccess("c1")
    \/ \E k \in Kinds : CallFailure("c1", k)
    \/ BreakerReset("c1")
    \/ BreakerTick

BreakerSpec == BreakerSpecInit /\ [][BreakerNext]_vars

\* calls keep arriving, func returns when it succeeds, time keeps advancing
LiveBreakerNext ==
    \/ CallEnter("c1")
    \/ CallSuccess("c1")
    \/ \E k \in Kinds : FailingCall("c1", k)
    \/ BreakerReset("c1")
    \/ BreakerTick

LiveBreakerSpec ==
    /\ BreakerSpecInit
    /\ [][LiveBreakerNext]_vars
    /\ WF_vars(CallEnter("c1"))
    /\ WF_vars(CallSuccess("c1"))
    /\ WF_vars(BreakerTick)

\* several callers: calls overlap
ConcBreakerNext ==
    \/ \E c \in Callers : CallEnter(c)
    \/ \E c \in Callers : CallSuccess(c)
    \/ \E c \in Callers, k \in Kinds : CallFailure(c, k)
    \/ \E c \in Callers : BreakerReset(c)
    \/ BreakerTick

ConcBreakerSpec == BreakerSpecInit /\ [][ConcBreakerNext]_vars

RetrySpecInit ==
    /\ RetryInit
    /\ now = 0
    /\ CacheUnused
    /\ BreakerUnused
    /\ QueryUnused
    /\ WatchUnused
    /\ ServiceUnused
    /\ RaceUnused

RetryNext ==
    \/ RetryEnter
    \/ \E out \in {"ok"} \cup Kinds : RetryAttempt(out)
    \/ RetryBackoff

RetrySpec == RetrySpecInit /\ [][RetryNext]_vars

QuerySpecInit ==
    /\ QueryCacheInit
    /\ now = 0
    /\ BreakerUnused
    /\ RetryUnused
    /\ WatchUnused
    /\ ServiceUnused
    /\ RaceUnused

QueryNext ==
    \/ \E c \in QueryCalls : QueryGet(c)
    \/ \E c \in QueryCalls, r \in Values : QuerySet(c, r)
    \/ QueryClear
    \/ QueryGetStats
    \/ QueryTick

QuerySpec == QuerySpecInit /\ [][QueryNext]_vars

WatchSpecInit ==
    /\ LRUInit
    /\ now = 0
    /\ watch = WatchFresh
    /\ BreakerUnused
    /\ RetryUnused
    /\ QueryUnused
    /\ ServiceUnused
    /\ RaceUnused

WatchNext ==
    \/ \E k \in Keys : WatchedGet(k)
    \/ \E k \in Keys, v \in Values : WatchedSet(k, v)
    \/ \E k \in Keys : WatchedDelete(k)
    \/ WatchedClear
    \/ WatchedTick

WatchSpec == WatchSpecInit /\ [][WatchNext]_vars

ServiceSpecInit ==
    /\ ServiceInit
    /\ now = 0
    /\ BreakerUnused
    /\ WatchUnused
    /\ RaceUnused

ServiceNext ==
    \/ \E q \in Queries : ServiceQuery(q)
    \/ QueryBody
    \/ \E r \in Values : AgentReturns(r)
    \/ AgentRaises
    \/ RetryBackoff
    \/ CreateAgent
    \/ ServiceReset
    \/ ServiceTick

ServiceSpec == ServiceSpecInit /\ [][ServiceNext]_vars

RaceSpecInit ==
    /\ LRUInit
    /\ now = 0
    /\ RaceFresh
    /\ BreakerUnused
    /\ RetryUnused
    /\ QueryUnused
    /\ WatchUnused
    /\ ServiceUnused

\* several callers on one LRUCache: their calls interleave between statements
RaceNext ==
    \/ \E c \in Callers, k \in Keys : GetCheck(c, k)
    \/ \E c \in Callers : GetEntry(c)
    \/ \E c \in Callers : GetDel(c)
    \/ \E c \in Callers : GetMove(c)
    \/ \E c \in Callers : MissRead(c)
    \/ \E c \in Callers : MissWrite(c)
    \/ \E c \in Callers : HitRead(c)
    \/ \E c \in Callers : HitWrite(c)
    \/ \E c \in Callers, k \in Keys, v \in Values : SetCheck(c, k, v)
    \/ \E c \in Callers : SetDel(c)
    \/ \E c \in Callers : SetInsert(c)
    \/ \E c \in Callers : SetLen(c)
    \/ \E c \in Callers : SetPop(c)
    \/ \E c \in Callers, k \in Keys : DeleteCheck(c, k)
    \/ \E c \in Callers : DeleteDel(c)
    \/ \E c \in Callers : ClearStore(c)
    \/ \E c \in Callers : ClearHits(c)
    \/ \E c \in Callers : ClearMisses(c)
    \/ RaceTick

RaceSpec == RaceSpecInit /\ [][RaceNext]_vars

\* the values do not matter to the ageing of entries: one is stored
AgingNext ==
    \/ \E k \in Keys : AgingGet(k)
    \/ \E k \in Keys : AgingSet(k, "v1")
    \/ \E k \in Keys : AgingDelete(k)
    \/ AgingClear
    \/ AgingTick

AgingSpec == WatchSpecInit /\ [][AgingNext]_vars

CachedSpecInit ==
    /\ CachedInit
    /\ now = 0
    /\ BreakerUnused
    /\ RetryUnused
    /\ WatchUnused
    /\ ServiceUnused
    /\ RaceUnused

CachedNext ==
    \/ \E q \in Queries, r \in FuncResults : CachedCall(q, r)
    \/ QueryClear
    \/ QueryTick

CachedSpec == CachedSpecInit /\ [][CachedNext]_vars

GuardedSpecInit ==
    /\ GuardedInit
    /\ now = 0
    /\ CacheUnused
    /\ QueryUnused
    /\ WatchUnused
    /\ ServiceUnused
    /\ RaceUnused

\* one retry sequence around the breaker; the clock moves with the sleeps
GuardedNext ==
    \/ RetryEnter
    \/ GuardedAttempt("c1")
    \/ GuardedSuccess("c1")
    \/ \E k \in Kinds : GuardedFailure("c1", k)
    \/ RetryBackoff

GuardedSpec == GuardedSpecInit /\ [][GuardedNext]_vars

\* several callers on one CircuitBreaker within one reading of the clock,
\* every one with a func that fails: the statements of _on_failure interleave
RaceBreakerNext ==
    \/ \E c \in Callers : CallEnter(c)
    \/ \E c \in Callers, k \in Kinds : FailureRead(c, k)
    \/ \E c \in Callers : FailureWrite(c)
    \/ \E c \in Callers : FailureStamp(c)
    \/ \E c \in Callers : FailureTrip(c)

RaceBreakerSpec == BreakerSpecInit /\ [][RaceBreakerNext]_vars

\* ------------------------------------------------------- LRUCache claims

\* C1: after every set call returns, the number of stored entries is at
\* most max_size (single caller, max_size >= 1).
C1_Capacity == cacheOp.op = "set" => Len(cache) <= max_size

\* a set has returned from a cache that was full and had to evict
C1_Witness ==
    /\ cacheOp.op = "set"
    /\ cacheOp.evicted # None
    /\ Len(cache) = max_size

\* the key, among those stored in c, whose last successful get or set is
\* the oldest
OldestUsed(c, uo) ==
    uo[CHOOSE i \in DOMAIN uo :
          /\ uo[i] \in KeySet(c)
          /\ \A j \in DOMAIN uo : uo[j] \in KeySet(c) => i <= j]

\* C2: a set of a new key into a full cache evicts exactly one entry, the
\* head of the recency order (oldest last successful get or set), never
\* the key just inserted; any other set evicts nothing.
C2_SetEvictsHead ==
    [][cacheOp'.op = "set" =>
        LET k == cacheOp'.key
            gone == (KeySet(cache) \cup {k}) \ KeySet(cache')
        IN  /\ k \in KeySet(cache')
            /\ IF k \notin KeySet(cache) /\ Len(cache) = max_size
               THEN /\ gone = {Head(cache).key}
                    /\ Head(cache).key = OldestUsed(cache, useOrder)
                    /\ Len(cache') = Len(cache)
                    /\ KeyList(cache') = Append(Tail(KeyList(cache)), k)
               ELSE gone = {}]_vars

\* a set into a full cache of two entries has evicted one of them
C2_Witness ==
    /\ cacheOp.op = "set"
    /\ cacheOp.evicted # None
    /\ max_size = 2
    /\ cacheOp.evicted \notin KeySet(cache)
    /\ cacheOp.key \in KeySet(cache)

\* C3: a successful get(k) moves k to the most-recently-used position (so
\* the next eviction does not take k while another entry is present); a
\* get that misses keeps the relative order of the remaining entries.
C3_GetRefreshes ==
    [][/\ cacheOp'.op = "get" =>
            LET k == cacheOp'.key
            IN  IF hits' = hits + 1
                THEN /\ cache'[Len(cache')].key = k
                     /\ KeyList(DelKey(cache', k)) = KeyList(DelKey(cache, k))
                     /\ Len(cache') > 1 => Head(cache').key # k
                ELSE KeyList(cache') = KeyList(DelKey(cache, k))
       /\ (/\ cacheOp.op = "get"
           /\ cacheOp.branch = "hit"
           /\ cacheOp'.op = "set"
           /\ Len(cache) > 1
           /\ Len(cache') <= Len(cache)
           /\ cacheOp'.key \notin KeySet(cache))
          => cacheOp.key \in KeySet(cache')]_vars

\* a read entry has survived the eviction done by the set that followed
C3_Witness ==
    /\ cacheOp.op = "set"
    /\ cacheOp.evicted # None
    /\ \E i \in DOMAIN cache :
          /\ cache[i].access_count > 0
          /\ \E j \in DOMAIN useOrder : j + 1 \in DOMAIN useOrder
                /\ useOrder[j] = cache[i].key
                /\ useOrder[j + 1] = cacheOp.key

\* C4: a get that finds its entry expired (now - created_at > ttl) removes
\* the entry, adds one miss and no hit, and returns absent.
C4_ExpiredGet ==
    [][(/\ cacheOp'.op = "get"
        /\ HasKey(cache, cacheOp'.key)
        /\ now - Lookup(cache, cacheOp'.key).created_at > ttl)
       => /\ ~HasKey(cache', cacheOp'.key)
          /\ misses' = misses + 1
          /\ hits' = hits
          /\ cacheOp'.result = None]_vars

\* a get has found its entry expired
C4_Witness ==
    /\ cacheOp.op = "get"
    /\ cacheOp.branch = "expired"
    /\ cacheOp.result = None
    /\ misses > 0

\* ------------------------------------------------- CircuitBreaker claims

\* C5: a closed breaker passes calls through; a guarded failure adds one to
\* failure_count and sets last_failure_time, a success sets failure_count
\* to 0, and the breaker opens exactly when failure_count reaches
\* failure_threshold, i.e. after failure_threshold guarded failures with no
\* success in between.
C5_ClosedCounts ==
    [][state = "closed" =>
        /\ cbOp'.ev # "reject"
        /\ cbOp'.ev = "admit" =>
              /\ callPc'[cbOp'.caller] = "invoking"
              /\ state' = "closed"
              /\ failure_count' = failure_count
              /\ last_failure_time' = last_failure_time
        /\ cbOp'.ev = "fail_guarded" =>
              /\ failure_count' = failure_count + 1
              /\ last_failure_time' = now
              /\ state' \in {"closed", "open"}
              /\ state' = "open" <=> failure_count' >= failure_threshold
              /\ state' = "open" <=> streak' = failure_threshold
        /\ cbOp'.ev = "success" =>
              /\ failure_count' = 0
              /\ state' = "closed"]_vars

\* the second of two guarded failures in a row has opened a breaker whose
\* threshold is 2
C5_Witness ==
    /\ cbOp.ev = "fail_guarded"
    /\ failure_threshold = 2
    /\ state = "open"
    /\ failure_count = 2
    /\ streak = 2
    /\ cbSnap[cbOp.caller].state = "closed"

\* C6: while the breaker is open and now - last_failure_time <
\* recovery_timeout, every call is rejected with the circuit-open failure,
\* func is not invoked, and state, failure_count and last_failure_time stay
\* as they are.
C6_OpenRejects ==
    [][(/\ state = "open"
        /\ last_failure_time # NoTime
        /\ now - last_failure_time < recovery_timeout
        /\ cbOp'.ev \in {"admit", "reject"})
       => /\ cbOp'.ev = "reject"
          /\ callPc' = callPc
          /\ state' = state
          /\ failure_count' = failure_count
          /\ last_failure_time' = last_failure_time]_vars

\* a call has been rejected one tick before the cooldown ends
C6_Witness ==
    /\ cbOp.ev = "reject"
    /\ state = "open"
    /\ now > last_failure_time
    /\ now - last_failure_time = recovery_timeout - 1
    /\ callPc[cbOp.caller] = "idle"

\* C7: for an open breaker, a call made when now - last_failure_time >=
\* recovery_timeout (equality included) moves it to half_open and invokes
\* func; a success of that call closes the breaker with failure_count 0, a
\* guarded failure returns it to open with failure_count incremented and
\* last_failure_time = now.
C7_Recovery ==
    [][/\ (/\ state = "open"
           /\ now - last_failure_time >= recovery_timeout
           /\ cbOp'.ev \in {"admit", "reject"})
          => /\ cbOp'.ev = "admit"
             /\ state' = "half_open"
             /\ callPc'[cbOp'.caller] = "invoking"
       /\ (state = "half_open" /\ cbOp'.ev = "success")
          => /\ state' = "closed"
             /\ failure_count' = 0
       /\ (state = "half_open" /\ cbOp'.ev = "fail_guarded")
          => /\ state' = "open"
             /\ failure_count' = failure_count + 1
             /\ last_failure_time' = now]_vars

\* the trial call admitted exactly recovery_timeout after the last failure
\* has failed and re-opened the breaker at a later time
C7_Witness ==
    /\ cbOp.ev = "fail_guarded"
    /\ cbSnap[cbOp.caller].state = "open"
    /\ recovery_timeout > 0
    /\ cbSnap[cbOp.caller].now - cbSnap[cbOp.caller].last_failure_time
          = recovery_timeout
    /\ state = "open"
    /\ failure_count = cbSnap[cbOp.caller].failure_count + 1
    /\ last_failure_time = now
    /\ now > cbSnap[cbOp.caller].now

\* C8: each time the breaker enters half_open, exactly one call is passed
\* to func before the breaker leaves half_open, whatever the outcome of
\* that call and whether callers are sequential or concurrent.
C8_OneTrial == state = "half_open" => trials <= 1

\* C9: a failure of func whose kind is not guarded leaves state,
\* failure_count and last_failure_time exactly as they were before the
\* call, in every breaker state.
C9_UnguardedFrame ==
    [][cbOp'.ev = "fail_unguarded" =>
        /\ cbOp'.kind \notin expected_exceptions
        /\ state' = cbSnap[cbOp'.caller].state
        /\ failure_count' = cbSnap[cbOp'.caller].failure_count
        /\ last_failure_time' = cbSnap[cbOp'.caller].last_failure_time]_vars

\* ---------------------------------------------------------- retry claims

\* every invocation so far has failed with a retryable failure
AlwaysFailsRetryable ==
    \A i \in DOMAIN retryLog :
        retryLog[i].ev = "invoke" => retryLog[i].kind \in retry_exceptions

\* C10: an operation that fails with a retryable failure on every attempt
\* is invoked exactly max_retries + 1 times, after which the failure raised
\* by the last attempt propagates to the caller unchanged.
C10_Exhaustion ==
    AlwaysFailsRetryable =>
        /\ Invocations(retryLog) <= max_retries + 1
        /\ retryPc = "done" =>
              /\ Invocations(retryLog) = max_retries + 1
              /\ retryResult.status = "raised"
              /\ retryResult.failure =
                    Failure(retryLog[Len(retryLog)].kind, max_retries + 1)
              /\ retryLog[Len(retryLog)].ev = "invoke"

\* three failing invocations have exhausted a wrapper built with
\* max_retries = 2
C10_Witness ==
    /\ retryPc = "done"
    /\ max_retries = 2
    /\ AlwaysFailsRetryable
    /\ Invocations(retryLog) = 3
    /\ retryResult.status = "raised"
    /\ retryResult.failure.raised_at = 3

\* the events of one kind in the log, in order
EventsOf(log, e) == SelectSeq(log, LAMBDA x : x.ev = e)

\* C11: an attempt that fails with a failure whose kind is not retryable
\* propagates it at once, on whichever attempt: no further invocation, no
\* delay and no callback follow it.
C11_NonRetryable ==
    [][/\ retryPc # "done"
       /\ (/\ Len(retryLog') > Len(retryLog)
           /\ retryLog'[Len(retryLog) + 1].ev = "invoke"
           /\ retryLog'[Len(retryLog) + 1].kind \notin retry_exceptions \cup {"ok"})
          => /\ retryPc' = "done"
             /\ retryResult' =
                   RetryOutcome("raised",
                                Failure(retryLog'[Len(retryLog) + 1].kind,
                                        Invocations(retryLog) + 1), 0)
             /\ Len(retryLog') = Len(retryLog) + 1
             /\ now' = now]_vars

\* a non-retryable failure of the second attempt has ended the wrapper,
\* which had a callback
C11_Witness ==
    /\ retryPc = "done"
    /\ on_retry
    /\ retryResult.status = "raised"
    /\ retryResult.failure.kind \notin retry_exceptions
    /\ retryResult.failure.raised_at = 2
    /\ Invocations(retryLog) = 2
    /\ Len(EventsOf(retryLog, "sleep")) = 1
    /\ Len(EventsOf(retryLog, "on_retry")) = 1

\* C12: when func first succeeds on attempt k <= max_retries after k
\* retryable failures, the wrapper returns that result, func has been
\* invoked k + 1 times and k delays were taken; nothing follows a success.
C12_SuccessAfterRetries ==
    (retryPc = "done" /\ retryResult.status = "returned") =>
        LET k == Invocations(retryLog) - 1
        IN  /\ k <= max_retries
            /\ retryResult.value_of = k + 1
            /\ retryLog[Len(retryLog)] = RetryEvent("invoke", "ok", k + 1)
            /\ Len(EventsOf(retryLog, "sleep")) = k
            /\ \A i \in 1..k :
                  EventsOf(retryLog, "invoke")[i].kind \in retry_exceptions

\* func has succeeded on the last allowed attempt of a wrapper with
\* max_retries = 2
C12_Witness ==
    /\ retryPc = "done"
    /\ retryResult.status = "returned"
    /\ max_retries = 2
    /\ Invocations(retryLog) = 3
    /\ Len(EventsOf(retryLog, "sleep")) = 2

\* C13: the delay taken before retry i (0-indexed) is
\* min(base_delay * exponential_base^i, max_delay); the delays of one retry
\* sequence are non-decreasing and none exceeds max_delay.
C13_Delays ==
    LET sleeps == EventsOf(retryLog, "sleep")
    IN  \A i \in DOMAIN sleeps :
            /\ sleeps[i].n =
                  IF base_delay * (exponential_base ^ (i - 1)) <= max_delay
                  THEN base_delay * (exponential_base ^ (i - 1))
                  ELSE max_delay
            /\ sleeps[i].n <= max_delay
            /\ i > 1 => sleeps[i - 1].n <= sleeps[i].n

\* two delays were taken, the first below the cap and the second cut to it
C13_Witness ==
    LET sleeps == EventsOf(retryLog, "sleep")
    IN  /\ Len(sleeps) = 2
        /\ base_delay > 0
        /\ sleeps[1].n = base_delay
        /\ sleeps[1].n < sleeps[2].n
        /\ sleeps[2].n = max_delay
        /\ base_delay * exponential_base > max_delay

\* C14: a QueryCache built with enabled = false has no LRUCache and stores
\* nothing: whatever calls were made, nothing is cached or counted, the last
\* get returned None and the last get_stats returned {"enabled": False}
C14_Disabled ==
    ~enabled =>
        /\ ~hasCache
        /\ cache = <<>>
        /\ hits = 0
        /\ misses = 0
        /\ cacheOp.op = "init"
        /\ qOp.op = "get" => qOp.result = None
        /\ qOp.op = "get_stats" => qOp.stats = DisabledStats

C14_Witness ==
    /\ ~enabled
    /\ qOp.op = "get"
    /\ qOp.result = None
    /\ Cardinality(calls) = 2

C14_WitnessStats ==
    /\ ~enabled
    /\ qOp.op = "get_stats"
    /\ qOp.stats = DisabledStats

\* the set of (name, value) pairs of the keyword arguments
ParamSet(kw) == {kw[i] : i \in DOMAIN kw}

SameCall(c, q, kw) == c.query = q /\ ParamSet(c.kwargs) = ParamSet(kw)

\* C15: on an enabled QueryCache, right after set(q, r, extras) a get with the
\* same query and the same (name, value) pairs in any order returns r; a get
\* with another query, another value or another set of parameters uses another
\* key, so it finds what that key held before the set or nothing; and get
\* returns what is stored under the key of its query and parameters
C15_KeyDeterminism ==
    [][/\ (enabled /\ qOp'.op = "set") =>
            \A c \in calls :
                LET key == GenerateKey(c.query, c.kwargs)
                IN  IF SameCall(c, qOp'.query, qOp'.kwargs)
                    THEN /\ key = cacheOp'.key
                         /\ GetResult(cache', key, now') = qOp'.result
                    ELSE /\ key # cacheOp'.key
                         /\ HasKey(cache', key) =>
                                /\ HasKey(cache, key)
                                /\ Lookup(cache', key) = Lookup(cache, key)
                         /\ ~HasKey(cache', key) =>
                                GetResult(cache', key, now') = None
       /\ (enabled /\ qOp'.op = "get") =>
            \A c \in calls :
                SameCall(c, qOp'.query, qOp'.kwargs) =>
                    qOp'.result
                        = GetResult(cache, GenerateKey(c.query, c.kwargs), now)]_vars

\* a set has just returned, and the run's other call passes the same
\* parameters in the other order: its get would return the result just stored
C15_Witness ==
    /\ enabled
    /\ qOp.op = "set"
    /\ \E c \in calls :
        /\ c.kwargs # qOp.kwargs
        /\ SameCall(c, qOp.query, qOp.kwargs)
        /\ GetResult(cache, GenerateKey(c.query, c.kwargs), now) = qOp.result

\* a get with the parameters in one order has just returned the result that
\* the cache holds, in a run whose other call passes them in the other order
C15_WitnessGet ==
    /\ enabled
    /\ qOp.op = "get"
    /\ qOp.result # None
    /\ \E c \in calls : c.kwargs # qOp.kwargs /\ SameCall(c, qOp.query, qOp.kwargs)

\* a set has just returned and the run's other call, with another parameter
\* value, still finds nothing
C15_WitnessOther ==
    /\ enabled
    /\ qOp.op = "set"
    /\ Len(cache) = 1
    /\ \E c \in calls :
        /\ ~SameCall(c, qOp.query, qOp.kwargs)
        /\ GetResult(cache, GenerateKey(c.query, c.kwargs), now) = None

C16_WitnessNoGet ==
    /\ cacheOp.op = "get_stats"
    /\ cacheOp.result.total_requests = 0
    /\ cacheOp.result.hit_rate.num = 0
    /\ cacheOp.result.size >= 1

\* C17: set(k, v) on a key that is present keeps the size and the other
\* entries, evicts nothing, makes k the most recently used key with the other
\* keys in their old order, stores an entry with access_count 0 and
\* created_at = now, and a following get(k) returns v
C17_Overwrite ==
    [][(cacheOp'.op = "set" /\ HasKey(cache, cacheOp'.key)) =>
        LET k == cacheOp'.key
        IN  \A v \in Values :
                LRUSet(k, v) =>
                    /\ Len(cache') = Len(cache)
                    /\ cacheOp'.evicted = None
                    /\ \A j \in KeySet(cache) \ {k} :
                        /\ HasKey(cache', j)
                        /\ Lookup(cache', j) = Lookup(cache, j)
                    /\ KeyList(cache')
                        = SelectSeq(KeyList(cache), LAMBDA j : j # k) \o <<k>>
                    /\ cache'[Len(cache')].value = v
                    /\ cache'[Len(cache')].access_count = 0
                    /\ cache'[Len(cache')].created_at = now
                    /\ GetResult(cache', k, now') = v]_vars

\* the key set again was the least recently used of two and had been read
C17_Witness ==
    /\ cacheOp.op = "set"
    /\ Len(cache) = 2
    /\ Len(useOrder) = 2
    /\ hits >= 1
    /\ cache[2].key = cacheOp.key
    /\ cache[2].access_count = 0
    /\ cacheOp.evicted = None
    /\ max_size = 2

\* the position of a stored key
Pos(c, k) == CHOOSE i \in DOMAIN c : c[i].key = k

\* C19: delete(k) returns True exactly when k was stored, expired or not, and
\* k is then not stored; the counters, the other entries and their relative
\* order stay as they were
C19_Delete ==
    [][cacheOp'.op = "delete" =>
        LET k == cacheOp'.key
        IN  LRUDelete(k) =>
                /\ cacheOp'.result = "True" <=> HasKey(cache, k)
                /\ cacheOp'.result = "False" <=> ~HasKey(cache, k)
                /\ ~HasKey(cache', k)
                /\ hits' = hits
                /\ misses' = misses
                /\ KeySet(cache') = KeySet(cache) \ {k}
                /\ \A j \in KeySet(cache) \ {k} :
                    Lookup(cache', j) = Lookup(cache, j)
                /\ \A i, j \in KeySet(cache) \ {k} :
                    Pos(cache', i) < Pos(cache', j)
                        <=> Pos(cache, i) < Pos(cache, j)]_vars

\* the older of two entries has just been deleted and the other one stays
C19_Witness ==
    /\ cacheOp.op = "delete"
    /\ cacheOp.result = "True"
    /\ Len(cache) = 1
    /\ cache[1].key # cacheOp.key
    /\ Len(useOrder) >= 2
    /\ useOrder[1] = cacheOp.key

\* a delete of a key that is not stored has just returned False
C19_WitnessAbsent ==
    /\ cacheOp.op = "delete"
    /\ cacheOp.result = "False"
    /\ Len(cache) >= 1

\* C18 as stated: the followed key, once set and neither deleted nor cleared,
\* is returned by get while its ttl has not elapsed and fewer than max_size
\* other distinct keys have been set since; a key never set is not found
C18_SetThenGet ==
    /\ (/\ watch.live
        /\ now - watch.at <= ttl
        /\ Cardinality(watch.setSince) < max_size)
       => GetResult(cache, WatchedKey, now) = watch.value
    /\ ~watch.ever => GetResult(cache, WatchedKey, now) = None

\* C18: the followed key, once set and neither deleted nor cleared, is
\* returned by get while its ttl has not elapsed and fewer than max_size other
\* distinct keys have been set or read with a hit since; a key never set is
\* not found
C18_SetThenGetUnlessUsed ==
    /\ (/\ watch.live
        /\ now - watch.at <= ttl
        /\ Cardinality(watch.usedSince) < max_size)
       => GetResult(cache, WatchedKey, now) = watch.value
    /\ ~watch.ever => GetResult(cache, WatchedKey, now) = None
    /\ (cacheOp.op = "get" /\ cacheOp.key = WatchedKey) =>
        /\ (/\ watch.live
            /\ now - watch.at <= ttl
            /\ Cardinality(watch.usedSince) < max_size)
           => cacheOp.result = watch.value
        /\ ~watch.ever => cacheOp.result = None

\* the followed key has just been read back after one other key was set, in a
\* cache of two
C18_Witness ==
    /\ cacheOp.op = "get"
    /\ cacheOp.key = WatchedKey
    /\ cacheOp.result = watch.value
    /\ watch.live
    /\ Cardinality(watch.setSince) = 1
    /\ max_size = 2
    /\ Len(cache) = 2

\* a key never set has just been looked up, with other keys stored
C18_WitnessNeverSet ==
    /\ cacheOp.op = "get"
    /\ cacheOp.key = WatchedKey
    /\ cacheOp.result = None
    /\ ~watch.ever
    /\ Len(cache) >= 1

\* C20: clear leaves no entry and hits = misses = 0 whatever the state before,
\* and leaves max_size and ttl as they were; here for QueryCache.clear on an
\* enabled cache
C20_QueryClearResets ==
    [][(enabled /\ qOp'.op = "clear") =>
            /\ cache' = <<>>
            /\ hits' = 0
            /\ misses' = 0
            /\ max_size' = max_size
            /\ ttl' = ttl]_vars

\* the same for LRUCache.clear itself
C20_LRUClearResets ==
    [][cacheOp'.op = "clear" =>
            /\ cache' = <<>>
            /\ hits' = 0
            /\ misses' = 0
            /\ max_size' = max_size
            /\ ttl' = ttl]_vars

\* QueryCache.clear has returned on an enabled cache that holds nothing, and
\* a miss is still counted
C20_StaleCounters ==
    /\ enabled
    /\ qOp.op = "clear"
    /\ cache = <<>>
    /\ misses > 0

\* ------------------------------------------- CircuitBreaker claims, cont.

\* C21: reset, in whichever state it is called, leaves the breaker closed
\* with failure_count = 0 and last_failure_time = None, and the call that
\* comes next is passed to func.
C21_Reset ==
    [][/\ cbOp'.ev = "reset" =>
            /\ state' = "closed"
            /\ failure_count' = 0
            /\ last_failure_time' = NoTime
       /\ (cbOp.ev = "reset" /\ cbOp'.ev \in {"admit", "reject"}) =>
            /\ cbOp'.ev = "admit"
            /\ callPc'[cbOp'.caller] = "invoking"
            /\ state' = "closed"]_vars

\* the breaker has just been reset while it was open: the call before was
\* rejected at this same time
C21_Witness ==
    /\ cbOp.ev = "reset"
    /\ cbSnap["c1"].state = "open"
    /\ cbSnap["c1"].now = now
    /\ cbSnap["c1"].last_failure_time # NoTime
    /\ now - cbSnap["c1"].last_failure_time < recovery_timeout
    /\ state = "closed"
    /\ failure_count = 0
    /\ last_failure_time = NoTime

\* C22: a call rejected by the open breaker fails with a kind of its own, so
\* that a handler for it catches no failure of func and the default retry
\* policy does not take it for a retryable failure of func, and the rejection
\* carries the remaining cooldown recovery_timeout - (now -
\* last_failure_time).
C22_DistinctRejection ==
    [][cbOp'.ev = "reject" =>
        /\ \A k \in Kinds : ~IsInstance(k, {cbOp'.kind})
        /\ ~IsInstance(cbOp'.kind, DefaultExceptions)
        /\ cbOp'.retry_after
            = recovery_timeout - (now - last_failure_time)]_vars

\* a call has been rejected one tick into a cooldown of two, and the
\* rejection says two
C22_StaleCooldown ==
    /\ cbOp.ev = "reject"
    /\ recovery_timeout = 2
    /\ now - last_failure_time = 1
    /\ cbOp.retry_after = 2

\* ----------------------------------------------------- RAGService claims
\* what the cache stores: the keys with their values and creation times
Stored(c) ==
    {[key |-> c[i].key, value |-> c[i].value, created_at |-> c[i].created_at]
        : i \in DOMAIN c}

\* C23: in RAGService.query with an initialized agent, a live cache entry of
\* the query is returned without invoking the agent; otherwise the agent is
\* invoked, its response is stored only when the agent call succeeds, and
\* no other step of the service adds or replaces a cache entry.
C23_CacheFirst ==
    [][LET key == GenerateKey(query, <<>>)
           live == /\ ~PassThrough(enabled, hasCache)
                   /\ GetOutcome(cache, key, now) = "hit"
       IN  /\ (retryPc = "calling" /\ retryPc' # "calling" /\ agent) =>
                IF live
                THEN /\ retryPc' = "done"
                     /\ retryResult'.status = "returned"
                     /\ response' = Lookup(cache, key).value
                     /\ EventsOf(retryLog', "agent") = EventsOf(retryLog, "agent")
                     /\ Stored(cache') = Stored(cache)
                ELSE /\ retryPc' = "agent"
                     /\ Stored(cache') \subseteq Stored(cache)
           /\ (retryPc = "agent" /\ retryPc' # "agent") =>
                IF retryResult'.status = "returned"
                THEN \/ PassThrough(enabled, hasCache)
                     \/ /\ HasKey(cache', key)
                        /\ Lookup(cache', key).value = response'
                        /\ Lookup(cache', key).created_at = now
                ELSE cache' = cache
           /\ ~(Stored(cache') \subseteq Stored(cache)) =>
                /\ retryPc = "agent"
                /\ retryResult'.status = "returned"]_vars

\* a query answered from the cache: its call made no agent call
C23_Witness ==
    /\ retryPc = "done"
    /\ retryResult.status = "returned"
    /\ response \in Values
    /\ EventsOf(retryLog, "lookup") # <<>>
    /\ EventsOf(retryLog, "lookup")[1].kind = "hit"
    /\ EventsOf(retryLog, "agent") = <<>>

\* a query whose every attempt failed while the cache held another entry
C23_WitnessFailed ==
    /\ retryPc = "done"
    /\ retryResult.status = "raised"
    /\ retryResult.failure.kind = "QueryError"
    /\ Len(EventsOf(retryLog, "agent")) = max_retries + 1
    /\ Len(cache) = 1
    /\ cache[1].key # GenerateKey(query, <<>>)

\* C24: one call of RAGService.query looks the query up in the cache once,
\* however many attempts the retry policy makes, so it adds at most one
\* miss to the statistics.
C24_OneLookup == Len(EventsOf(retryLog, "lookup")) <= 1

\* a second attempt has looked the query up again and counted a second miss
C24_LookupPerAttempt ==
    /\ attempt = 1
    /\ retryPc = "agent"
    /\ svcCalls = 1
    /\ Len(EventsOf(retryLog, "lookup")) = 2
    /\ misses = 2

\* ----------------------------------------------------- concurrency claims
\* C25: with several callers inside LRUCache.set at once, no set call
\* returns while the store holds more than max_size entries.
C25_ConcCapacity ==
    (cacheOp.op = "set" /\ cacheOp.branch # "raised") => Len(cache) <= max_size

\* a set has returned and left the store over capacity: the other caller
\* inserted after this one had decided to evict a single entry
C25_Overfull ==
    /\ cacheOp.op = "set"
    /\ cacheOp.branch # "raised"
    /\ Len(cache) > max_size
    /\ \E c \in Callers : thr[c].pc \in {"set_len", "set_pop"}

\* C26: with several callers inside LRUCache.get at once no counter update
\* is lost: once all calls have returned (none failed, nothing was cleared),
\* hits is the number of gets that returned a value and misses the number
\* that returned absent.
C26_NoLostUpdate ==
    (/\ \A c \in Callers : thr[c].pc = "idle"
     /\ tally.cleared = 0
     /\ tally.raised = 0)
        => /\ hits = tally.found
           /\ misses = tally.absent

\* two gets of an absent key have both returned and misses is 1
C26_LostMiss ==
    /\ \A c \in Callers : thr[c].pc = "idle"
    /\ tally = [started |-> 2, found |-> 0, absent |-> 2, raised |-> 0,
                cleared |-> 0]
    /\ cache = <<>>
    /\ misses = 1

\* C27: with several callers inside CircuitBreaker.call at once every guarded
\* failure is counted: when the failure that completes a run of
\* failure_threshold failures (no success or reset in between) returns,
\* failure_count >= failure_threshold and the state is open.
C27_EveryFailureCounted ==
    (cbOp.ev = "fail_guarded" /\ streak >= failure_threshold)
        => /\ failure_count >= failure_threshold
           /\ state = "open"

\* two overlapping failures have completed on a breaker of threshold 2 that
\* counts one failure and is still closed
C27_LostFailure ==
    /\ cbOp.ev = "fail_guarded"
    /\ failure_threshold = 2
    /\ streak = 2
    /\ failure_count = 1
    /\ state = "closed"
    /\ \A c \in Callers : callPc[c] = "idle"

\* C28: a get that overlaps a delete, a clear or an evicting set of the same
\* instance returns the value or absent; it never ends with an error.
C28_GetNeverRaises == cacheOp.op = "get" => cacheOp.branch # "raised"

\* a get has ended with KeyError after its presence check found the key
C28_KeyError ==
    /\ cacheOp.op = "get"
    /\ cacheOp.result = "KeyError"
    /\ ~HasKey(cache, cacheOp.key)
    /\ hits + misses = 0

C29_ZeroTtlHit ==
    /\ ttl = 0
    /\ cacheOp.op = "get"
    /\ cacheOp.branch = "hit"
    /\ cacheOp.result \in Values
    /\ Lookup(cache, cacheOp.key).created_at = now
    /\ hits = 1
    /\ misses = 0

\* ------------------------------------------------------ order of a retry
\* C30: in one retry sequence with a callback, every callback comes right
\* after the invocation whose failure it is given, carries that failure and
\* the zero-based index of the failed attempt, and is followed by the delay
\* and then by the next invocation; there is one callback per delay, at
\* most max_retries of them, and nothing follows the last failed attempt.
C30_RetryOrder ==
    on_retry =>
        /\ \A i \in DOMAIN retryLog :
              /\ retryLog[i].ev = "on_retry" =>
                    /\ i > 1
                    /\ retryLog[i - 1].ev = "invoke"
                    /\ retryLog[i - 1].kind = retryLog[i].kind
                    /\ retryLog[i - 1].kind \in retry_exceptions
                    /\ retryLog[i].n = retryLog[i - 1].n - 1
                    /\ i + 1 \in DOMAIN retryLog
                    /\ retryLog[i + 1].ev = "sleep"
              /\ retryLog[i].ev = "sleep" =>
                    /\ i > 1
                    /\ retryLog[i - 1].ev = "on_retry"
                    /\ i + 1 \in DOMAIN retryLog =>
                          /\ retryLog[i + 1].ev = "invoke"
                          /\ retryLog[i + 1].n = retryLog[i - 1].n + 2
              /\ (retryLog[i].ev = "invoke" /\ i + 1 \in DOMAIN retryLog) =>
                    /\ retryLog[i].kind \in retry_exceptions
                    /\ retryLog[i + 1].ev = "on_retry"
        /\ Len(EventsOf(retryLog, "on_retry")) <= max_retries
        /\ Len(EventsOf(retryLog, "on_retry")) = Len(EventsOf(retryLog, "sleep"))
        /\ retryPc \in {"backoff", "done"} =>
              /\ retryLog # <<>>
              /\ retryLog[Len(retryLog)].ev = "invoke"
              /\ Len(EventsOf(retryLog, "on_retry")) = Invocations(retryLog) - 1

\* a sequence of three failed attempts with a callback: two callbacks, with
\* attempt indexes 0 and 1, each before its delay; none after the third
C30_Witness ==
    /\ on_retry
    /\ max_retries = 2
    /\ retryPc = "done"
    /\ retryResult.status = "raised"
    /\ Len(retryLog) = 7
    /\ retryLog[2].ev = "on_retry" /\ retryLog[2].n = 0
    /\ retryLog[3].ev = "sleep"
    /\ retryLog[5].ev = "on_retry" /\ retryLog[5].n = 1
    /\ retryLog[7].ev = "invoke"

\* --------------------------------------------- CircuitBreaker invariants
\* C31: in every state reached through call and reset (one caller,
\* failure_threshold >= 1) a closed breaker has
\* failure_count < failure_threshold.
C31_ClosedBelowThreshold ==
    (state = "closed" /\ failure_threshold >= 1)
        => failure_count < failure_threshold

\* a guarded failure has left a breaker of threshold 2 closed with one
\* counted failure
C31_Witness ==
    /\ cbOp.ev = "fail_guarded"
    /\ state = "closed"
    /\ failure_threshold = 2
    /\ failure_count = 1

\* C32: in every state reached through call and reset the state is closed,
\* open or half_open; an open or half_open breaker has last_failure_time
\* set and failure_count >= failure_threshold, so a guarded failure of the
\* half_open trial returns the breaker to open.
C32_OpenHasFailure ==
    /\ [](/\ state \in {"closed", "open", "half_open"}
          /\ state \in {"open", "half_open"} =>
                /\ last_failure_time # NoTime
                /\ failure_count >= failure_threshold)
    /\ [][(state = "half_open" /\ cbOp'.ev = "fail_guarded")
            => state' = "open"]_vars

\* the trial call of a half_open breaker has failed with a guarded failure
\* and the breaker is open again
C32_Witness ==
    /\ cbOp.ev = "fail_guarded"
    /\ cbSnap["c1"].state = "open"
    /\ state = "open"
    /\ last_failure_time = now
    /\ failure_count = failure_threshold + 1

\* C33: if calls keep arriving and time keeps advancing, an open breaker
\* does not stay open: the call made once recovery_timeout has elapsed since
\* the last counted failure is admitted, and with func succeeding from then
\* on the breaker reaches closed with failure_count 0.
C33_Recovers ==
    /\ [][(/\ state = "open"
           /\ now - last_failure_time >= recovery_timeout
           /\ cbOp'.ev \in {"admit", "reject"})
            => cbOp'.ev = "admit"]_vars
    /\ (state = "open") ~> (state = "closed" /\ failure_count = 0)

\* the trial call admitted after the cooldown has succeeded and closed the
\* breaker
C33_Witness ==
    /\ cbOp.ev = "success"
    /\ cbSnap["c1"].state = "open"
    /\ recovery_timeout > 0
    /\ cbSnap["c1"].now - cbSnap["c1"].last_failure_time >= recovery_timeout
    /\ state = "closed"
    /\ failure_count = 0

\* total time the wrapper has slept so far
RECURSIVE SleptFor(_)
SleptFor(log) ==
    IF log = <<>> THEN 0
    ELSE (IF Head(log).ev = "sleep" THEN Head(log).n ELSE 0) + SleptFor(Tail(log))

\* every time func ran so far it raised a failure that the breaker guards
\* and the wrapper retries
AlwaysFailsGuardedRetryable ==
    \A i \in 1..Len(EventsOf(retryLog, "operation")) :
        LET k == EventsOf(retryLog, "operation")[i].kind
        IN  /\ k # "ok"
            /\ k \in expected_exceptions
            /\ IsInstance(k, retry_exceptions)

\* C34: a retry wrapper around a breaker call with failure_threshold <=
\* max_retries, an operation that always fails with a guarded and retryable
\* failure, and delays that add up to less than recovery_timeout: the
\* operation never runs more than failure_threshold times, every later
\* attempt is the breaker's rejection, and when the retry sequence has ended
\* the operation has run exactly failure_threshold times
C34_OperationRunsThresholdTimes ==
    (/\ failure_threshold <= max_retries
     /\ AlwaysFailsGuardedRetryable
     /\ SleptFor(retryLog) < recovery_timeout)
    => /\ Len(EventsOf(retryLog, "operation")) <= failure_threshold
       /\ \A i \in 1..Len(EventsOf(retryLog, "invoke")) :
             i > failure_threshold
                => EventsOf(retryLog, "invoke")[i].kind = ExceptionClass
       /\ retryPc = "done"
             => Len(EventsOf(retryLog, "operation")) = failure_threshold

C34_Witness ==
    /\ retryPc = "done"
    /\ failure_threshold = 1
    /\ max_retries = 1
    /\ recovery_timeout = 2
    /\ AlwaysFailsGuardedRetryable
    /\ SleptFor(retryLog) = 1
    /\ Len(EventsOf(retryLog, "operation")) = 1
    /\ Len(EventsOf(retryLog, "invoke")) = 2
    /\ cbOp.ev = "reject"
    /\ state = "open"

\* C35: a get that returns the followed key's value happens no later than
\* ttl after the last set of that key, returns what that set stored and
\* leaves the entry's created_at at the time of that set, however many reads
\* came before; a get later than that is a miss
C35_GetDoesNotExtendLifetime ==
    [][(cacheOp'.op = "get" /\ cacheOp'.key = WatchedKey)
         => IF cacheOp'.branch = "hit"
            THEN /\ watch.live
                 /\ now - watch.at <= ttl
                 /\ cacheOp'.result = watch.value
                 /\ Lookup(cache', WatchedKey).created_at = watch.at
            ELSE /\ cacheOp'.result = None
                 /\ ~HasKey(cache', WatchedKey)]_vars

\* the second read of an entry in its last live instant
C35_Witness ==
    /\ cacheOp.op = "get"
    /\ cacheOp.key = WatchedKey
    /\ cacheOp.branch = "hit"
    /\ ttl = 1
    /\ now - watch.at = 1
    /\ Lookup(cache, WatchedKey).access_count = 2
    /\ Lookup(cache, WatchedKey).accessed_at = now
    /\ Lookup(cache, WatchedKey).created_at = watch.at

\* an entry that is stored and expired
HasExpired(c, t) == \E i \in DOMAIN c : IsExpired(c[i], t)

\* C36: time alone leaves the store as it is; a stored entry goes or is
\* replaced only by a get of its own key that finds it expired, a delete of
\* its key, a clear, a set of its key, or the eviction of a set; that
\* eviction takes the head of the order, expired or not, when the store
\* with its expired entries is full
C36_LazyExpiry ==
    [][/\ cacheOp'.op = "tick" => (cache' = cache /\ Len(cache') = Len(cache))
       /\ \A i \in DOMAIN cache :
             (~HasKey(cache', cache[i].key)
                 \/ Lookup(cache', cache[i].key).created_at # cache[i].created_at
                 \/ Lookup(cache', cache[i].key).value # cache[i].value)
             => \/ /\ cacheOp'.op = "get"
                   /\ cacheOp'.key = cache[i].key
                   /\ IsExpired(cache[i], now)
                \/ cacheOp'.op = "delete" /\ cacheOp'.key = cache[i].key
                \/ cacheOp'.op = "clear"
                \/ cacheOp'.op = "set" /\ cacheOp'.key = cache[i].key
                \/ cacheOp'.op = "set" /\ cacheOp'.evicted = cache[i].key
       /\ (cacheOp'.op = "set" /\ cacheOp'.evicted # None)
             => /\ Len(cache) = max_size
                /\ ~HasKey(cache, cacheOp'.key)
                /\ cacheOp'.evicted = Head(cache).key
                /\ KeyList(cache') = Append(Tail(KeyList(cache)), cacheOp'.key)]_vars

\* a set has evicted the followed key before its ttl ran out, while an
\* expired entry stays stored
C36_Witness ==
    /\ cacheOp.op = "set"
    /\ cacheOp.evicted = WatchedKey
    /\ watch.live
    /\ now - watch.at <= ttl
    /\ HasExpired(cache, now)
    /\ Len(cache) = max_size

\* the entry the cache holds for query q, when it holds one that has not
\* expired
LiveEntry(q) ==
    /\ HasKey(cache, GenerateKey(q, <<>>))
    /\ ~IsExpired(Lookup(cache, GenerateKey(q, <<>>)), now)

\* C37: a call of a function decorated with cached over an enabled
\* QueryCache, made while the cache holds a live entry for its first
\* argument, does not execute the function and returns the stored result,
\* None included
C37_ExecutedOncePerLiveKey ==
    [][(/\ qOp'.op \in {"cached_hit", "cached_run"}
        /\ enabled
        /\ LiveEntry(qOp'.query))
          => /\ qOp'.op = "cached_hit"
             /\ qOp'.result = Lookup(cache, GenerateKey(qOp'.query, <<>>)).value]_vars

\* the function has run although the cache holds the None it returned
\* before
C37_RunsAgain ==
    /\ qOp.op = "cached_run"
    /\ enabled
    /\ hits = 1
    /\ misses = 1
    /\ cacheOp.op = "set"
    /\ Len(cache) = 1

\* C38: a query call that ended with AgentNotInitializedError made one
\* attempt, slept for no backoff delay and made no cache lookup
C38_UninitializedFailsAtOnce ==
    (/\ retryPc = "done"
     /\ retryResult.status = "raised"
     /\ retryResult.failure.kind = "AgentNotInitializedError")
    => /\ Invocations(retryLog) = 1
       /\ EventsOf(retryLog, "sleep") = <<>>
       /\ EventsOf(retryLog, "lookup") = <<>>

\* the call has raised after four attempts and delays of 1, 2 and 4
C38_Retried ==
    /\ retryPc = "done"
    /\ retryResult.status = "raised"
    /\ retryResult.failure.kind = "AgentNotInitializedError"
    /\ retryResult.failure.raised_at = 4
    /\ ~agent
    /\ Invocations(retryLog) = 4
    /\ SleptFor(retryLog) = 7
    /\ EventsOf(retryLog, "lookup") = <<>>

\* C39: when a query call ends, agent_state.status is 'ready' if the call
\* returned a response, 'error' only if the call raised, and never
\* 'processing'
C39_StatusAfterQuery ==
    [][(retryPc # "done" /\ retryPc' = "done")
         => /\ retryResult'.status = "returned" => status' = "ready"
            /\ status' = "error" => retryResult'.status = "raised"
            /\ status' # "processing"]_vars

\* a call has returned a cached response and the status is still the
\* 'error' of the call before it
C39_HitLeavesError ==
    /\ retryPc = "done"
    /\ retryResult.status = "returned"
    /\ response # None
    /\ status = "error"
    /\ Len(EventsOf(retryLog, "lookup")) = 1
    /\ retryLog[1].kind = "hit"
    /\ svcCalls = 3

====
